---- MODULE Spec2Model ----
(***************************************************************************)
(* Transcript parsing and normalisation of chatbot_analyzer.               *)
(*                                                                         *)
(* A JavaScript string is a sequence of tokens: a token stands for a run   *)
(* of characters that the regular expressions of the source treat as a     *)
(* unit (a word, a keyword, one punctuation character, the text of a       *)
(* timestamp, a run of whitespace).  The regular expressions are           *)
(* translated to matchers over token sequences.                            *)
(***************************************************************************)
EXTENDS Integers, Sequences, FiniteSets, TLC

VARIABLES
    content,            \* the text handed to parseTextTranscript: a sequence of lines
    filename,           \* the name of the file it came from
    pc,                 \* position in parseTextTranscript and the parser it selects
    idx,                \* index of the next line of the parser's for-loop
    messages,           \* parseTimestampedTranscript: messages
    currentMessage,     \* parseTimestampedTranscript: currentMessage
    earliestTimestamp,  \* parseTimestampedTranscript: earliestTimestamp
    latestTimestamp,    \* parseTimestampedTranscript: latestTimestamp
    conversations,      \* parseSimpleTextTranscript: conversations
    currentConversation,\* parseSimpleTextTranscript: currentConversation
    result,             \* the value returned (a list of sessions)
    files,              \* parseUploadedFiles: files
    fileIdx,            \* parseUploadedFiles: index of the next file of the loop
    results,            \* parseUploadedFiles: results
    bpc,                \* position in the upload pipeline
    allTranscripts,     \* normalizeTranscripts: the list returned
    renormalized,       \* normalizeTranscripts applied to its own output
    metrics,            \* extractRuleBasedMetrics: the snapshot returned
    userBehavior,       \* extractUserBehavior: the report returned
    payload,            \* the text handed to parseResultsContent
    decoded,            \* parseResultsContent: the object returned
    appState,           \* AppProvider: uploadedFiles and parsedTranscripts of state
    closure,            \* FileUpload: the state its memoized handlers closed over
    flights,            \* FileUpload: the calls of processFiles, in call order
    runPc,              \* runAnalysis: position
    llmConfig,          \* runAnalysis: config.llmConfig
    llmReply,           \* what llmService.complete does when it is called
    progressLog,        \* the calls of config.onProgress, in order
    llmCalls,           \* the calls of llmService methods, in order
    runResults,         \* runAnalysis: results
    objectPrototype,    \* the properties the program has added to Object.prototype
    invocations         \* the calls of the two extractors made so far, in order

textVars == <<content, filename, pc, idx, messages, currentMessage, earliestTimestamp,
              latestTimestamp, conversations, currentConversation, result>>

analysisVars == <<userBehavior, payload, decoded>>

runVars == <<appState, closure, flights, runPc, llmConfig, llmReply, progressLog,
             llmCalls, runResults>>

flowVars == <<runVars, objectPrototype, invocations>>

batchVars == <<files, fileIdx, results, bpc, allTranscripts, renormalized, metrics,
               analysisVars, flowVars>>

vars == <<textVars, batchVars>>

(***************************************************************************)
(* Bounds of the model.                                                    *)
(***************************************************************************)
MaxLines == 3
MaxFiles == 2
MaxPayload == 3
MaxSessions == 3
MaxBatches == 2
MaxRunSessions == 1
MaxCalls == 3

(***************************************************************************)
(* JavaScript values.                                                      *)
(***************************************************************************)
Undefined == [t |-> "undefined"]
Null == [t |-> "null"]
Str(s) == [t |-> "string", v |-> s]
Number(n) == [t |-> "number", n |-> n]
Bool(b) == [t |-> "boolean", b |-> b]
Num5 == Number(5)
Obj(o) == [t |-> "object", v |-> o]
Arr(a) == [t |-> "array", v |-> a]
InvalidDate == [t |-> "date", valid |-> FALSE, ms |-> 0]
DateAt(n) == [t |-> "date", valid |-> TRUE, ms |-> n]

\* ToBoolean: undefined, null and the empty string are falsy; Num5 is the number 5.
Truthy(x) ==
    CASE x.t = "undefined" -> FALSE
      [] x.t = "null" -> FALSE
      [] x.t = "string" -> x.v # <<>>
      [] x.t = "number" -> x.n # 0
      [] x.t = "boolean" -> x.b
      [] OTHER -> TRUE

\* a || b
Or(a, b) == IF Truthy(a) THEN a ELSE b

(***************************************************************************)
(* Strings.                                                                *)
(***************************************************************************)
IsSpace(tok) == tok \in {"SP", "NL"}

RECURSIVE TrimStart(_)
TrimStart(s) ==
    IF s # <<>> /\ IsSpace(Head(s)) THEN TrimStart(Tail(s)) ELSE s

RECURSIVE TrimEnd(_)
TrimEnd(s) ==
    IF s # <<>> /\ IsSpace(s[Len(s)]) THEN TrimEnd(SubSeq(s, 1, Len(s) - 1)) ELSE s

\* String.prototype.trim
Trim(s) == TrimEnd(TrimStart(s))

ToUpperCaseTok(tok) ==
    CASE tok \in {"USER", "User", "user"} -> "USER"
      [] tok \in {"AI", "ai"} -> "AI"
      [] tok \in {"Bot", "bot"} -> "BOT"
      [] tok \in {"Session", "session"} -> "SESSION"
      [] OTHER -> tok

ToLowerCaseTok(tok) ==
    CASE tok \in {"USER", "User", "user"} -> "user"
      [] tok \in {"AI", "ai"} -> "ai"
      [] tok \in {"Bot", "bot", "BOT"} -> "bot"
      [] tok \in {"Session", "session"} -> "session"
      [] tok = "Transfer" -> "transfer"
      [] tok = "Customer" -> "customer"
      [] tok = "Tracking" -> "tracking"
      [] tok \in {"iPad", "IPAD"} -> "ipad"
      [] tok = "Shoes" -> "shoes"
      [] tok = "Help" -> "help"
      [] OTHER -> tok

ToLowerCase(s) == [i \in 1..Len(s) |-> ToLowerCaseTok(s[i])]

\* the number of leading whitespace tokens of s
RECURSIVE SpaceRun(_)
SpaceRun(s) ==
    IF s # <<>> /\ IsSpace(Head(s)) THEN 1 + SpaceRun(Tail(s)) ELSE 0

Drop(s, n) == SubSeq(s, n + 1, Len(s))

(***************************************************************************)
(* Dates.                                                                  *)
(***************************************************************************)
\* timestamp texts that carry a UTC offset / that carry none
StampsTz == {"T1", "T2", "T3", "TX"}
StampsNoTz == {"T0"}

\* new Date(text): TX has month 13; Zn is the ISO text of the instant n
NewDate(tok) ==
    CASE tok \in {"T1", "Z1"} -> DateAt(1)
      [] tok \in {"T2", "Z2", "T0"} -> DateAt(2)
      [] tok \in {"T3", "Z3"} -> DateAt(3)
      [] OTHER -> InvalidDate

\* a < b on Date objects: a comparison with NaN is false
DateLt(a, b) == a.valid /\ b.valid /\ a.ms < b.ms

IsoTok(n) ==
    CASE n = 1 -> "Z1"
      [] n = 2 -> "Z2"
      [] OTHER -> "Z3"

\* d?.toISOString() || null; toISOString throws RangeError on an invalid date
IsoThrows(d) == d # Null /\ ~d.valid
IsoOrNull(d) == IF d = Null THEN Null ELSE Str(<<IsoTok(d.ms)>>)

(***************************************************************************)
(* The regular expressions of the parsers.                                 *)
(***************************************************************************)
SQ == "'"
DQ == "\""

\* the first index of tok in s, 0 when absent
RECURSIVE IndexFrom(_, _, _)
IndexFrom(s, tok, i) ==
    IF i > Len(s) THEN 0
    ELSE IF s[i] = tok THEN i
    ELSE IndexFrom(s, tok, i + 1)

IndexOf(s, tok) == IndexFrom(s, tok, 1)

\* the last index of tok in s, 0 when absent
RECURSIVE LastIndexFrom(_, _, _)
LastIndexFrom(s, tok, i) ==
    IF i < 1 THEN 0
    ELSE IF s[i] = tok THEN i
    ELSE LastIndexFrom(s, tok, i - 1)

LastIndexOf(s, tok) == LastIndexFrom(s, tok, Len(s))

\* (USER|AI|RESULTS|CONVERSATION STARTED) under the i flag
IsRoleKeyword(tok) ==
    ToUpperCaseTok(tok) \in {"USER", "AI", "RESULTS", "CONVERSATION STARTED"}

NoMatch == [ok |-> FALSE, timestamp |-> <<>>, role |-> "", content |-> <<>>]

\* linePattern: ^\[(stamp, offset optional)\]\s*(ROLE)(?:\s*:\s*)?(.*)$
MatchLinePattern(t) ==
    IF Len(t) >= 4 /\ t[1] = "[" /\ t[2] \in StampsTz \cup StampsNoTz /\ t[3] = "]"
    THEN LET r1 == Drop(t, 3)
             r2 == Drop(r1, SpaceRun(r1))
         IN  IF r2 # <<>> /\ IsRoleKeyword(Head(r2))
             THEN LET r3 == Tail(r2)
                      k == SpaceRun(r3)
                      colon == Len(r3) > k /\ r3[k + 1] = ":"
                      r4 == Drop(r3, k + 1)
                  IN  [ok |-> TRUE, timestamp |-> <<t[2]>>, role |-> Head(r2),
                       content |-> IF colon THEN Drop(r4, SpaceRun(r4)) ELSE r3]
             ELSE NoMatch
    ELSE NoMatch

\* separatorPattern: ^={10,}$
EqLen(tok) == IF tok = "==========" THEN 10 ELSE 1

RECURSIVE CharCount(_)
CharCount(s) == IF s = <<>> THEN 0 ELSE EqLen(Head(s)) + CharCount(Tail(s))

IsSeparator(t) ==
    /\ \A i \in 1..Len(t) : t[i] \in {"=", "=========="}
    /\ CharCount(t) >= 10

\* content.split('\n') and its inverse
RECURSIVE Join(_)
Join(lines) ==
    IF lines = <<>> THEN <<>>
    ELSE IF Len(lines) = 1 THEN lines[1]
    ELSE lines[1] \o <<"NL">> \o Join(Tail(lines))

\* timestampPattern.test(content): \[(stamp with offset)\]\s*(ROLE), anywhere
TimestampPatternTest(text) ==
    \E i \in 1..Len(text) :
        /\ i + 3 <= Len(text)
        /\ text[i] = "[" /\ text[i + 1] \in StampsTz /\ text[i + 2] = "]"
        /\ LET r == Drop(text, i + 2)
               q == Drop(r, SpaceRun(r))
           IN  q # <<>> /\ IsRoleKeyword(Head(q))

(***************************************************************************)
(* JSON.parse on the fragment of a RESULTS line.                           *)
(***************************************************************************)
JsonFail == [ok |-> FALSE, val |-> Undefined, rest |-> <<>>]

RECURSIVE JsonValue(_)
RECURSIVE JsonElems(_, _)
JsonValue(s0) ==
    LET s == TrimStart(s0) IN
    IF s = <<>> THEN JsonFail
    ELSE IF Head(s) = "["
    THEN LET r == TrimStart(Tail(s)) IN
         IF r # <<>> /\ Head(r) = "]"
         THEN [ok |-> TRUE, val |-> Arr(<<>>), rest |-> Tail(r)]
         ELSE JsonElems(Tail(s), <<>>)
    ELSE IF Head(s) = DQ
    THEN LET k == IndexOf(Tail(s), DQ) IN
         IF k = 0 THEN JsonFail
         ELSE [ok |-> TRUE, val |-> Str(SubSeq(Tail(s), 1, k - 1)),
               rest |-> Drop(Tail(s), k)]
    ELSE IF Head(s) = "5"
    THEN [ok |-> TRUE, val |-> Num5, rest |-> Tail(s)]
    ELSE JsonFail

JsonElems(s, acc) ==
    LET v == JsonValue(s) IN
    IF ~v.ok THEN JsonFail
    ELSE LET r == TrimStart(v.rest) IN
         IF r = <<>> THEN JsonFail
         ELSE IF Head(r) = "," THEN JsonElems(Tail(r), Append(acc, v.val))
         ELSE IF Head(r) = "]"
         THEN [ok |-> TRUE, val |-> Arr(Append(acc, v.val)), rest |-> Tail(r)]
         ELSE JsonFail

JsonParse(s) ==
    LET v == JsonValue(s) IN
    IF v.ok /\ TrimStart(v.rest) = <<>> THEN v ELSE JsonFail

(***************************************************************************)
(* parseResultsContent                                                     *)
(***************************************************************************)
\* s.split(',')
RECURSIVE SplitComma(_)
SplitComma(s) ==
    LET k == IndexOf(s, ",") IN
    IF k = 0 THEN <<s>>
    ELSE <<SubSeq(s, 1, k - 1)>> \o SplitComma(Drop(s, k))

\* s.replace(/['"]/g, '')
StripQuotes(s) == SelectSeq(s, LAMBDA tok : tok \notin {SQ, DQ})

\* s.replace(/'/g, '"')
SingleToDouble(s) == [i \in 1..Len(s) |-> IF s[i] = SQ THEN DQ ELSE s[i]]

\* /STYLES:\s*\[([^\]]+)\]/i at position i: the captured group, <<>> when no match
StylesGroupAt(s, i) ==
    IF i + 1 <= Len(s) /\ s[i] = "STYLES" /\ s[i + 1] = ":"
    THEN LET r == Drop(s, i + 1)
             q == Drop(r, SpaceRun(r))
         IN  IF q # <<>> /\ Head(q) = "["
             THEN LET k == IndexOf(Tail(q), "]") IN
                  IF k >= 2 THEN SubSeq(Tail(q), 1, k - 1) ELSE <<>>
             ELSE <<>>
    ELSE <<>>

\* /PRODUCTS\s*(\[[\s\S]*\])/i at position i: the captured group (greedy)
ProductsGroupAt(s, i) ==
    IF s[i] = "PRODUCTS"
    THEN LET r == Drop(s, i)
             q == Drop(r, SpaceRun(r))
         IN  IF q # <<>> /\ Head(q) = "[" /\ LastIndexOf(q, "]") > 1
             THEN SubSeq(q, 1, LastIndexOf(q, "]"))
             ELSE <<>>
    ELSE <<>>

\* the leftmost position at which G(s, i) matches, 0 when none
RECURSIVE FirstStyles(_, _)
FirstStyles(s, i) ==
    IF i > Len(s) THEN 0
    ELSE IF StylesGroupAt(s, i) # <<>> THEN i
    ELSE FirstStyles(s, i + 1)

RECURSIVE FirstProducts(_, _)
FirstProducts(s, i) ==
    IF i > Len(s) THEN 0
    ELSE IF ProductsGroupAt(s, i) # <<>> THEN i
    ELSE FirstProducts(s, i + 1)

parseResultsContent(c) ==
    LET si == FirstStyles(c, 1)
        pi == FirstProducts(c, 1)
        parts == SplitComma(StylesGroupAt(c, si))
        group == ProductsGroupAt(c, pi)
        parsed == JsonParse(SingleToDouble(group))
    IN  [styles |-> IF si = 0 THEN Undefined
                    ELSE Arr([j \in 1..Len(parts) |-> Str(StripQuotes(Trim(parts[j])))]),
         products |-> IF pi # 0 /\ parsed.ok THEN parsed.val ELSE Undefined,
         productsRaw |-> IF pi # 0 /\ ~parsed.ok THEN Str(group) ELSE Undefined]

(***************************************************************************)
(* Messages and sessions.  A field that an object does not have is         *)
(* Undefined.                                                              *)
(***************************************************************************)
Message(role, text, timestamp) ==
    [id |-> Undefined, role |-> role, sender |-> Undefined, content |-> text,
     text |-> Undefined, message |-> Undefined, timestamp |-> timestamp,
     results |-> Undefined]

EmptyMetadata ==
    [timestamp |-> Undefined, dateRange |-> Undefined, sourceFile |-> Undefined,
     format |-> Undefined, language |-> Undefined, escalated |-> Undefined,
     hasOrder |-> Undefined, messageCount |-> Undefined, hasEscalation |-> Undefined,
     userTurns |-> Undefined, botTurns |-> Undefined]

(***************************************************************************)
(* parseTimestampedTranscript                                              *)
(***************************************************************************)
\* filename.match(/session_([a-f0-9-]+)_transcript/i)
SessionIdOf(name) ==
    IF \E i \in 1..Len(name) :
           i + 2 <= Len(name) /\ name[i] = "session_" /\ name[i + 2] = "_transcript"
    THEN LET i == CHOOSE j \in 1..Len(name) :
                      /\ j + 2 <= Len(name) /\ name[j] = "session_"
                      /\ name[j + 2] = "_transcript"
                      /\ \A h \in 1..(j - 1) :
                             ~(h + 2 <= Len(name) /\ name[h] = "session_"
                               /\ name[h + 2] = "_transcript")
         IN  <<name[i + 1]>>
    ELSE name

\* the locals of the function before the loop
TsStart ==
    [messages |-> <<>>, currentMessage |-> Null,
     earliestTimestamp |-> Null, latestTimestamp |-> Null]

\* AttachResults without the role test
AttachResultsAnyRole(msgs, c) ==
    IF Len(msgs) > 0
    THEN [msgs EXCEPT ![Len(msgs)].results = Obj(parseResultsContent(c))]
    ELSE msgs

\* AttachResults searching back for the latest bot message
AttachResultsLastBot(msgs, c) ==
    LET bots == {k \in 1..Len(msgs) : msgs[k].role = Str(<<"bot">>)} IN
    IF bots # {}
    THEN [msgs EXCEPT ![CHOOSE k \in bots : \A j \in bots : j <= k].results =
                          Obj(parseResultsContent(c))]
    ELSE msgs

\* the RESULTS branch: attach to the last message of the list when it is a bot message
AttachResults(msgs, c) ==
    IF Len(msgs) > 0 /\ msgs[Len(msgs)].role = Str(<<"bot">>)
    THEN [msgs EXCEPT ![Len(msgs)].results = Obj(parseResultsContent(c))]
    ELSE msgs

\* the date-range tracking of one matched line
TrackEarliest(earliest, parsedTimestamp) ==
    IF earliest = Null \/ DateLt(parsedTimestamp, earliest)
    THEN parsedTimestamp ELSE earliest

TrackLatest(latest, parsedTimestamp) ==
    IF latest = Null \/ DateLt(latest, parsedTimestamp)
    THEN parsedTimestamp ELSE latest

\* Continuation without the separating space
ContinuationNoSpace(msg, trimmedLine) ==
    [msg EXCEPT !.content = Str(@.v \o trimmedLine)]

\* a line that does not match, with a message open
Continuation(msg, trimmedLine) ==
    [msg EXCEPT !.content = Str(@.v \o <<"SP">> \o trimmedLine)]

\* a variant in which a CONVERSATION STARTED marker discards the open message
TsStepMarkerDiscards(st, line) ==
    LET trimmedLine == Trim(line)
        match == MatchLinePattern(trimmedLine)
    IN  IF IsSeparator(trimmedLine) \/ trimmedLine = <<>> THEN st
        ELSE IF match.ok
        THEN LET pushed == IF st.currentMessage # Null
                           THEN Append(st.messages, st.currentMessage)
                           ELSE st.messages
                 parsedTimestamp == NewDate(match.timestamp[1])
                 early == TrackEarliest(st.earliestTimestamp, parsedTimestamp)
                 late == TrackLatest(st.latestTimestamp, parsedTimestamp)
                 normalizedRole == ToUpperCaseTok(match.role)
             IN  IF normalizedRole = "CONVERSATION STARTED"
                 THEN [messages |-> st.messages, currentMessage |-> Null,
                       earliestTimestamp |-> early, latestTimestamp |-> late]
                 ELSE IF normalizedRole = "RESULTS"
                 THEN [messages |-> AttachResults(pushed, match.content),
                       currentMessage |-> Null,
                       earliestTimestamp |-> early, latestTimestamp |-> late]
                 ELSE [messages |-> pushed,
                       currentMessage |->
                           Message(Str(IF normalizedRole = "USER"
                                       THEN <<"user">> ELSE <<"bot">>),
                                   Str(Trim(match.content)), Str(match.timestamp)),
                       earliestTimestamp |-> early, latestTimestamp |-> late]
        ELSE IF st.currentMessage # Null /\ trimmedLine # <<>>
        THEN [st EXCEPT !.currentMessage = Continuation(@, trimmedLine)]
        ELSE st

\* one iteration of the loop over the lines
TsStep(st, line) ==
    LET trimmedLine == Trim(line)
        match == MatchLinePattern(trimmedLine)
    IN  IF IsSeparator(trimmedLine) \/ trimmedLine = <<>> THEN st
        ELSE IF match.ok
        THEN LET pushed == IF st.currentMessage # Null
                           THEN Append(st.messages, st.currentMessage)
                           ELSE st.messages
                 parsedTimestamp == NewDate(match.timestamp[1])
                 early == TrackEarliest(st.earliestTimestamp, parsedTimestamp)
                 late == TrackLatest(st.latestTimestamp, parsedTimestamp)
                 normalizedRole == ToUpperCaseTok(match.role)
             IN  IF normalizedRole = "CONVERSATION STARTED"
                 THEN [messages |-> pushed, currentMessage |-> Null,
                       earliestTimestamp |-> early, latestTimestamp |-> late]
                 ELSE IF normalizedRole = "RESULTS"
                 THEN [messages |-> AttachResults(pushed, match.content),
                       currentMessage |-> Null,
                       earliestTimestamp |-> early, latestTimestamp |-> late]
                 ELSE [messages |-> pushed,
                       currentMessage |->
                           Message(Str(IF normalizedRole = "USER"
                                       THEN <<"user">> ELSE <<"bot">>),
                                   Str(Trim(match.content)), Str(match.timestamp)),
                       earliestTimestamp |-> early, latestTimestamp |-> late]
        ELSE IF st.currentMessage # Null /\ trimmedLine # <<>>
        THEN [st EXCEPT !.currentMessage = Continuation(@, trimmedLine)]
        ELSE st

\* after the loop: push the open message
TsLast(st) ==
    IF st.currentMessage # Null THEN Append(st.messages, st.currentMessage)
    ELSE st.messages

\* the return statement throws when a tracked Date is invalid
TsThrows(st) == IsoThrows(st.earliestTimestamp) \/ IsoThrows(st.latestTimestamp)

TsReturn(st, name) ==
    <<[id |-> Str(SessionIdOf(name)),
       messages |-> TsLast(st),
       metadata |-> [EmptyMetadata EXCEPT
           !.timestamp = IsoOrNull(st.earliestTimestamp),
           !.dateRange = Obj([start |-> IsoOrNull(st.earliestTimestamp),
                              end |-> IsoOrNull(st.latestTimestamp)]),
           !.sourceFile = Str(name),
           !.format = Str(<<"timestamped">>)]]>>

\* the function as a whole: the loop folded over the lines
RECURSIVE TsLoop(_, _)
TsLoop(st, lines) ==
    IF lines = <<>> THEN st ELSE TsLoop(TsStep(st, Head(lines)), Tail(lines))

parseTimestampedTranscript(text, name) ==
    LET st == TsLoop(TsStart, text) IN
    IF TsThrows(st) THEN [threw |-> TRUE, value |-> <<>>]
    ELSE [threw |-> FALSE, value |-> TsReturn(st, name)]

(***************************************************************************)
(* parseSimpleTextTranscript                                               *)
(***************************************************************************)
UserWords == {"user", "customer", "human", "visitor"}
BotWords == {"bot", "assistant", "agent", "chatbot", "ai"}
SessionWords == {"session", "conversation"}

\* /^(words)\s*[:\-]\s*(.+)/i on the line as read: the tokens after the separator
AfterPrefix(line) ==
    LET r == Tail(line) IN Drop(r, SpaceRun(r) + 1)

PrefixMatch(line, words) ==
    /\ line # <<>>
    /\ ToLowerCaseTok(Head(line)) \in words
    /\ LET r == Tail(line)
           k == SpaceRun(r)
       IN  Len(r) > k /\ r[k + 1] \in {":", "-"} /\ Drop(r, k + 1) # <<>>

\* content.split('\n').filter(line => line.trim())
SimpleLines(text) == SelectSeq(text, LAMBDA line : Trim(line) # <<>>)

NewConversation(id) == [id |-> id, messages |-> <<>>, metadata |-> EmptyMetadata]

SimpleStart(name) ==
    [conversations |-> <<>>, currentConversation |-> NewConversation(Str(name))]

\* the unprefixed branch: append to the last message of the current conversation
AppendToLast(conv, line) ==
    [conv EXCEPT !.messages[Len(conv.messages)].content =
                     Str(@.v \o <<"SP">> \o Trim(line))]

\* a variant that keeps every conversation, with or without messages
PushConversationAlways(convs, conv) == Append(convs, conv)

\* the end of the loop and after it: keep a conversation that has messages
PushConversation(convs, conv) ==
    IF Len(conv.messages) > 0 THEN Append(convs, conv) ELSE convs

\* one iteration of the loop over the non-blank lines
SimpleStep(st, line) ==
    LET cur == st.currentConversation IN
    IF PrefixMatch(line, SessionWords)
    THEN [conversations |-> PushConversation(st.conversations, cur),
          currentConversation |-> NewConversation(Str(Trim(AfterPrefix(line))))]
    ELSE IF PrefixMatch(line, UserWords)
    THEN [st EXCEPT !.currentConversation.messages =
              Append(@, Message(Str(<<"user">>), Str(Trim(AfterPrefix(line))), Undefined))]
    ELSE IF PrefixMatch(line, BotWords)
    THEN [st EXCEPT !.currentConversation.messages =
              Append(@, Message(Str(<<"bot">>), Str(Trim(AfterPrefix(line))), Undefined))]
    ELSE IF Trim(line) # <<>> /\ Len(cur.messages) > 0
    THEN [st EXCEPT !.currentConversation = AppendToLast(@, line)]
    ELSE st

\* the fallback session: one message of role unknown holding the whole input
UnknownSession(text, name) ==
    <<[id |-> Str(name),
       messages |-> <<Message(Str(<<"unknown">>), Str(Join(text)), Undefined)>>,
       metadata |-> EmptyMetadata]>>

SimpleReturn(st, text, name) ==
    LET all == PushConversation(st.conversations, st.currentConversation) IN
    IF Len(all) > 0 THEN all ELSE UnknownSession(text, name)

RECURSIVE SimpleLoop(_, _)
SimpleLoop(st, lines) ==
    IF lines = <<>> THEN st ELSE SimpleLoop(SimpleStep(st, Head(lines)), Tail(lines))

parseSimpleTextTranscript(text, name) ==
    SimpleReturn(SimpleLoop(SimpleStart(name), SimpleLines(text)), text, name)

\* parseTextTranscript: the grammar is chosen by timestampPattern
parseTextTranscript(text, name) ==
    IF TimestampPatternTest(Join(text))
    THEN parseTimestampedTranscript(text, name)
    ELSE [threw |-> FALSE, value |-> parseSimpleTextTranscript(text, name)]

(***************************************************************************)
(* parseTranscriptContent.  A file's content is its text (a sequence of    *)
(* lines) and the value JSON.parse gives for it, NotJson when JSON.parse   *)
(* throws.                                                                 *)
(***************************************************************************)
NotJson == [t |-> "syntaxError"]

DigitTok(n) ==
    CASE n = 0 -> "0" [] n = 1 -> "1" [] n = 2 -> "2" [] n = 3 -> "3" [] n = 4 -> "4"
      [] n = 5 -> "5" [] n = 6 -> "6" [] n = 7 -> "7" [] n = 8 -> "8" [] OTHER -> "9"

\* a JSON object with the properties the parser and the normaliser read
JsonObject ==
    [session_id |-> Undefined, id |-> Undefined, messages |-> Undefined,
     timestamp |-> Undefined, language |-> Undefined, escalation_flag |-> Undefined,
     order_flag |-> Undefined, role |-> Undefined, sender |-> Undefined,
     content |-> Undefined, text |-> Undefined, message |-> Undefined,
     results |-> Undefined]

\* the object read as a message
AsMessage(o) ==
    [id |-> o.id, role |-> o.role, sender |-> o.sender, content |-> o.content,
     text |-> o.text, message |-> o.message, timestamp |-> o.timestamp,
     results |-> o.results]

\* item.messages || [item]
MessagesOf(item) ==
    IF Truthy(item.messages) THEN item.messages.v ELSE <<AsMessage(item)>>

\* one element of the map over a parsed array, or the single object
JsonSession(item, fallbackId) ==
    [id |-> Or(Or(item.session_id, item.id), fallbackId),
     messages |-> MessagesOf(item),
     metadata |-> [EmptyMetadata EXCEPT
         !.timestamp = item.timestamp,
         !.language = item.language,
         !.escalated = item.escalation_flag,
         !.hasOrder = item.order_flag]]

\* reading a property of null or undefined throws TypeError inside the try block
JsonThrows(doc) ==
    \/ doc.t \in {"null", "undefined"}
    \/ doc.t = "array" /\ \E i \in 1..Len(doc.v) : doc.v[i].t \in {"null", "undefined"}

JsonSessions(doc, name) ==
    IF doc.t = "array"
    THEN [i \in 1..Len(doc.v) |->
             JsonSession(doc.v[i].v, Str(name \o <<"-", DigitTok(i - 1)>>))]
    ELSE <<JsonSession(doc.v, Str(name))>>

\* the result is [threw, value]; an exception of the JSON branch is caught and
\* the content is parsed as plain text
parseTranscriptContent(file, name) ==
    IF file.doc = NotJson \/ JsonThrows(file.doc)
    THEN parseTextTranscript(file.text, name)
    ELSE [threw |-> FALSE, value |-> JsonSessions(file.doc, name)]

(***************************************************************************)
(* normalizeTranscripts                                                    *)
(***************************************************************************)
userRoles == {<<"user">>, <<"customer">>, <<"human">>, <<"visitor">>, <<"client">>}
botRoles ==
    {<<"bot">>, <<"assistant">>, <<"agent">>, <<"chatbot">>, <<"ai">>, <<"system">>}

\* role.toLowerCase is not a function when role is no string
normalizeRoleThrows(role) == role.t # "string"

normalizeRole(role) ==
    IF ToLowerCase(role.v) \in userRoles THEN Str(<<"user">>)
    ELSE IF ToLowerCase(role.v) \in botRoles THEN Str(<<"bot">>)
    ELSE Str(<<"unknown">>)

normalizeMessage(msg, index) ==
    [id |-> Or(msg.id, Str(<<"msg-", DigitTok(index)>>)),
     role |-> normalizeRole(Or(Or(msg.role, msg.sender), Str(<<"unknown">>))),
     sender |-> Undefined,
     content |-> Or(Or(Or(msg.content, msg.text), msg.message), Str(<<>>)),
     text |-> Undefined,
     message |-> Undefined,
     timestamp |-> Or(msg.timestamp, Null),
     results |-> IF Truthy(msg.results) THEN msg.results ELSE Undefined]

normalizeMessages(msgs) == [i \in 1..Len(msgs) |-> normalizeMessage(msgs[i], i - 1)]

normalizeMessagesThrows(msgs) ==
    \E i \in 1..Len(msgs) :
        normalizeRoleThrows(Or(Or(msgs[i].role, msgs[i].sender), Str(<<"unknown">>)))

\* s.includes(phrase)
Includes(s, phrase) ==
    \E i \in 0..(Len(s) - Len(phrase)) : SubSeq(s, i + 1, i + Len(phrase)) = phrase

escalationPhrases ==
    {<<"speak", "SP", "to", "SP", "a", "SP", "human">>,
     <<"speak", "SP", "to", "SP", "someone">>,
     <<"transfer", "SP", "me">>,
     <<"real", "SP", "person">>,
     <<"human", "SP", "agent">>,
     <<"customer", "SP", "service">>,
     <<"supervisor">>,
     <<"manager">>,
     <<"escalate">>,
     <<"can't", "SP", "help">>,
     <<"don't", "SP", "understand">>}

orderPhrases ==
    {<<"order", "SP", "number">>, <<"order", "SP", "status">>, <<"tracking">>,
     <<"shipment">>, <<"delivery">>, <<"purchase">>, <<"bought">>, <<"ordered">>,
     <<"payment">>, <<"receipt">>}

\* messages.map(m => (m.content || '').toLowerCase()).join(' ')
RECURSIVE LoweredContent(_)
LoweredContent(msgs) ==
    IF msgs = <<>> THEN <<>>
    ELSE LET c == ToLowerCase(Or(Head(msgs).content, Str(<<>>)).v) IN
         IF Len(msgs) = 1 THEN c ELSE c \o <<"SP">> \o LoweredContent(Tail(msgs))

\* (m.content || '').toLowerCase is not a function when content is no string
LoweredContentThrows(msgs) ==
    \E i \in 1..Len(msgs) : Or(msgs[i].content, Str(<<>>)).t # "string"

detectEscalation(msgs) ==
    \E phrase \in escalationPhrases : Includes(LoweredContent(msgs), phrase)

detectOrder(msgs) ==
    \E phrase \in orderPhrases : Includes(LoweredContent(msgs), phrase)

CountRole(msgs, role) ==
    Cardinality({i \in 1..Len(msgs) :
                    normalizeRole(Or(msgs[i].role, Str(<<>>))) = Str(role)})

countUserTurns(msgs) == CountRole(msgs, <<"user">>)
countBotTurns(msgs) == CountRole(msgs, <<"bot">>)

CountTurnsThrows(msgs) ==
    \E i \in 1..Len(msgs) : normalizeRoleThrows(Or(msgs[i].role, Str(<<>>)))

\* generateId(): a fresh value, here numbered by the calls made so far
generateId(calls) == Str(<<"gen-", DigitTok(calls)>>)

\* the body of the inner loop: the normalized session of one transcript
normalizeTranscript(transcript, sourceFile, calls) ==
    [id |-> Or(transcript.id, generateId(calls)),
     sourceFile |-> Str(sourceFile),
     messages |-> normalizeMessages(transcript.messages),
     metadata |-> [transcript.metadata EXCEPT
         !.messageCount = Number(Len(transcript.messages)),
         !.hasEscalation = Bool(detectEscalation(transcript.messages)),
         !.hasOrder = Bool(detectOrder(transcript.messages)),
         !.userTurns = Number(countUserTurns(transcript.messages)),
         !.botTurns = Number(countBotTurns(transcript.messages))]]

normalizeTranscriptThrows(transcript) ==
    \/ normalizeMessagesThrows(transcript.messages)
    \/ LoweredContentThrows(transcript.messages)
    \/ CountTurnsThrows(transcript.messages)

\* the transcripts of the entries that carry no error, each with its file name
RECURSIVE Transcripts(_)
Transcripts(parsedResults) ==
    IF parsedResults = <<>> THEN <<>>
    ELSE LET r == Head(parsedResults) IN
         (IF Truthy(r.error) THEN <<>>
          ELSE [i \in 1..Len(r.transcripts) |->
                   [transcript |-> r.transcripts[i], filename |-> r.filename]])
         \o Transcripts(Tail(parsedResults))

\* the number of generateId calls made for the first n transcripts
GeneratedBefore(ts, n) ==
    Cardinality({i \in 1..n : ~Truthy(ts[i].transcript.id)})

\* the result is [threw, value]: an exception of one transcript leaves the function
normalizeTranscripts(parsedResults) ==
    LET ts == Transcripts(parsedResults) IN
    IF \E i \in 1..Len(ts) : normalizeTranscriptThrows(ts[i].transcript)
    THEN [threw |-> TRUE, value |-> <<>>]
    ELSE [threw |-> FALSE,
          value |-> [i \in 1..Len(ts) |->
                        normalizeTranscript(ts[i].transcript, ts[i].filename,
                                            GeneratedBefore(ts, i - 1))]]

\* a flattening that does not descend into nested arrays
flattenTopLevel(products) ==
    IF products.t = "array"
    THEN SelectSeq([i \in 1..Len(products.v) |->
                       IF products.v[i].t = "string" THEN products.v[i].v ELSE <<>>],
                   LAMBDA x : x # <<>>)
    ELSE <<>>

(***************************************************************************)
(* Numbers and objects of the analysis.  An average that the source rounds *)
(* with toFixed(2) is kept in hundredths, one rounded with toFixed(1) in   *)
(* tenths.  An object used as a map is the list of its own properties in   *)
(* property order.                                                         *)
(***************************************************************************)
\* parseFloat((a / b).toFixed(d)) scaled by 10^d (scale = 10^d); ties round up
Rounded(a, b, scale) == (2 * a * scale + b) \div (2 * b)

\* the value of a key that is a canonical array index, -1 for any other key
IndexValue(tok) ==
    CASE tok = "0" -> 0 [] tok = "1" -> 1 [] tok = "2" -> 2 [] tok = "3" -> 3
      [] tok = "4" -> 4 [] tok = "5" -> 5 [] tok = "6" -> 6 [] tok = "7" -> 7
      [] tok = "8" -> 8 [] tok = "9" -> 9 [] tok = "99" -> 99
      [] tok = "2024" -> 2024 [] tok = "2025" -> 2025
      [] OTHER -> -1

IsIndexKey(k) == Len(k) = 1 /\ IndexValue(k[1]) >= 0

\* obj[k] on a fresh {}: "__proto__" reads Object.prototype, and assigning to
\* it creates no own property
IsProtoKey(k) == k = <<"__proto__">>

\* the distinct elements of keys, in the order of their first occurrence
RECURSIVE FirstSeen(_)
FirstSeen(keys) ==
    IF keys = <<>> THEN <<>>
    ELSE LET front == SubSeq(keys, 1, Len(keys) - 1)
             last == keys[Len(keys)]
         IN  IF \E i \in 1..Len(front) : front[i] = last
             THEN FirstSeen(front)
             ELSE Append(FirstSeen(front), last)

\* the index keys among keys, by ascending value
RECURSIVE IndexKeysFrom(_, _)
IndexKeysFrom(keys, least) ==
    LET cand == {i \in 1..Len(keys) :
                    IsIndexKey(keys[i]) /\ IndexValue(keys[i][1]) >= least}
    IN  IF cand = {} THEN <<>>
        ELSE LET m == CHOOSE i \in cand :
                          \A j \in cand :
                              IndexValue(keys[i][1]) <= IndexValue(keys[j][1])
             IN  <<keys[m]>> \o IndexKeysFrom(keys, IndexValue(keys[m][1]) + 1)

\* the own property names of an object to which keys were assigned in this
\* order: array indices first, ascending, then the others in creation order
OwnKeys(keys) ==
    LET own == SelectSeq(FirstSeen(keys), LAMBDA k : ~IsProtoKey(k))
    IN  IndexKeysFrom(own, 0) \o SelectSeq(own, LAMBDA k : ~IsIndexKey(k))

Occurrences(keys, k) == Cardinality({i \in 1..Len(keys) : keys[i] = k})

\* entries.sort((a, b) => b.frequency - a.frequency): stable, descending
RECURSIVE SortByFrequencyFrom(_, _)
SortByFrequencyFrom(entries, f) ==
    IF f = 0 THEN <<>>
    ELSE SelectSeq(entries, LAMBDA e : e.frequency = f)
         \o SortByFrequencyFrom(entries, f - 1)

MaxFrequency(entries) ==
    IF entries = <<>> THEN 0
    ELSE CHOOSE f \in {entries[i].frequency : i \in 1..Len(entries)} :
             \A i \in 1..Len(entries) : entries[i].frequency <= f

SortByFrequency(entries) == SortByFrequencyFrom(entries, MaxFrequency(entries))

\* a.slice(0, n)
Slice(a, n) == SubSeq(a, 1, IF Len(a) < n THEN Len(a) ELSE n)

\* s.split(/\s+/).filter(w => w.length > 0): the maximal runs of tokens that
\* are no whitespace
RECURSIVE WordsOf(_)
WordsOf(s) ==
    LET t == TrimStart(s) IN
    IF t = <<>> THEN <<>>
    ELSE LET ends == {i \in 1..Len(t) : IsSpace(t[i])}
             k == IF ends = {} THEN Len(t) + 1
                  ELSE CHOOSE i \in ends : \A j \in ends : i <= j
         IN  <<SubSeq(t, 1, k - 1)>> \o WordsOf(Drop(t, k - 1))

\* the number of characters of a token, counted up to 3
TokLength(tok) ==
    IF tok \in {"[", "]", ":", ",", ";", "-", "#", "$", SQ, DQ, "a", "i",
                "0", "1", "2", "3", "4", "5", "6", "7", "8", "9"}
    THEN 1
    ELSE IF tok \in {"me", "my", "in", "at", "to", "of", "on", "it", "is", "an", "or",
                     "do", "hi", "ok", "AI", "ai", "tv", "TV", "99", "s1", "s9", "p1",
                     "p2", "p3", "m7", "u1"}
    THEN 2
    ELSE 3

RECURSIVE WordLength(_)
WordLength(w) == IF w = <<>> THEN 0 ELSE TokLength(Head(w)) + WordLength(Tail(w))

(***************************************************************************)
(* extractSessionOverview                                                  *)
(***************************************************************************)
\* new Date(value) for a string value
DateOf(value) ==
    IF value.t = "string" /\ Len(value.v) = 1 THEN NewDate(value.v[1]) ELSE InvalidDate

\* the instants pushed for one session: its message timestamps, then the
\* start and end of metadata.dateRange
InstantsOf(transcript) ==
    LET stamped == SelectSeq(transcript.messages,
                             LAMBDA m : Truthy(m.timestamp) /\ DateOf(m.timestamp).valid)
        range == transcript.metadata.dateRange
    IN  {DateOf(stamped[i].timestamp).ms : i \in 1..Len(stamped)}
        \cup (IF Truthy(range) /\ Truthy(range.v.start) /\ DateOf(range.v.start).valid
              THEN {DateOf(range.v.start).ms} ELSE {})
        \cup (IF Truthy(range) /\ Truthy(range.v.end) /\ DateOf(range.v.end).valid
              THEN {DateOf(range.v.end).ms} ELSE {})

\* milliseconds per day
MsPerDay == 86400000

\* formatTimestamp(date): the text of the instant n in the en-US locale
FormatTok(n) ==
    CASE n = 1 -> "F1"
      [] n = 2 -> "F2"
      [] OTHER -> "F3"

extractSessionOverview(transcripts) ==
    LET timestamps == UNION {InstantsOf(transcripts[i]) : i \in 1..Len(transcripts)}
        start == CHOOSE a \in timestamps : \A b \in timestamps : a <= b
        end == CHOOSE a \in timestamps : \A b \in timestamps : b <= a
        totalDays == ((end - start) + MsPerDay - 1) \div MsPerDay + 1
    IN  [totalSessions |-> Len(transcripts),
         dateRange |->
             IF timestamps = {}
             THEN [start |-> Null, end |-> Null, totalDays |-> 0]
             ELSE [start |-> Str(<<FormatTok(start)>>),
                   end |-> Str(<<FormatTok(end)>>),
                   startRaw |-> Str(<<IsoTok(start)>>),
                   endRaw |-> Str(<<IsoTok(end)>>),
                   totalDays |-> IF totalDays < 1 THEN 1 ELSE totalDays]]

(***************************************************************************)
(* extractTurnAnalysis                                                     *)
(***************************************************************************)
\* a count that takes every message, whatever its role
MessagesWithAnyRole(transcript, role) == Len(transcript.messages)

\* (transcript.messages || []).filter(m => m.role === role).length
MessagesWithRole(transcript, role) ==
    Len(SelectSeq(transcript.messages, LAMBDA m : m.role = Str(role)))

RECURSIVE SumOver(_, _)
SumOver(n, f) == IF n = 0 THEN 0 ELSE f[n] + SumOver(n - 1, f)

extractTurnAnalysis(transcripts) ==
    LET userTurnCount == [i \in 1..Len(transcripts) |->
                             MessagesWithRole(transcripts[i], <<"user">>)]
        botCount == [i \in 1..Len(transcripts) |->
                        MessagesWithRole(transcripts[i], <<"bot">>)]
        n == Len(transcripts)
        totalUserTurns == SumOver(n, userTurnCount)
    IN  [singleTurnSessions |-> Cardinality({i \in 1..n : userTurnCount[i] = 1}),
         multiTurnSessions |-> Cardinality({i \in 1..n : userTurnCount[i] > 1}),
         avgTurnsPerSession |-> IF n > 0 THEN Rounded(totalUserTurns, n, 100) ELSE 0,
         maxTurnsInSession |->
             IF n = 0 THEN 0
             ELSE CHOOSE t \in {userTurnCount[i] : i \in 1..n} :
                      \A i \in 1..n : userTurnCount[i] <= t,
         totalUserMessages |-> totalUserTurns,
         totalBotMessages |-> SumOver(n, botCount)]

(***************************************************************************)
(* extractQueryAnalysis                                                    *)
(***************************************************************************)
\* the messages of all sessions, in order
RECURSIVE AllMessages(_)
AllMessages(transcripts) ==
    IF transcripts = <<>> THEN <<>>
    ELSE Head(transcripts).messages \o AllMessages(Tail(transcripts))

\* extractQueryAnalysis: allQueries
allQueries(transcripts) ==
    LET user == SelectSeq(AllMessages(transcripts),
                          LAMBDA m : m.role = Str(<<"user">>) /\ Truthy(m.content))
    IN  [i \in 1..Len(user) |-> Trim(user[i].content.v)]

\* Object.values(queryFrequency): one entry per own key, with the literal
\* query that created it and the number of queries that have the key
queryFrequency(queries) ==
    LET keys == [i \in 1..Len(queries) |-> ToLowerCase(queries[i])]
        own == OwnKeys(keys)
    IN  [j \in 1..Len(own) |->
            [query |-> queries[CHOOSE i \in 1..Len(keys) :
                                   /\ keys[i] = own[j]
                                   /\ \A h \in 1..(i - 1) : keys[h] # own[j]],
             frequency |-> Occurrences(keys, own[j])]]

stopWords ==
    {"a", "an", "the", "is", "are", "was", "were", "for", "of", "to", "in", "on",
     "with", "i", "me", "my", "you", "your", "it", "and", "or", "but", "do", "does",
     "can", "will", "what", "how", "where", "when", "any", "have", "has"}

\* the words of all queries that count as search terms
RECURSIVE SearchWords(_)
SearchWords(queries) ==
    IF queries = <<>> THEN <<>>
    ELSE SelectSeq(WordsOf(ToLowerCase(Head(queries))),
                   LAMBDA w : WordLength(w) > 2 /\ ~(Len(w) = 1 /\ w[1] \in stopWords))
         \o SearchWords(Tail(queries))

topSearchTerms(queries) ==
    LET words == SearchWords(queries)
        own == OwnKeys(words)
        entries == [j \in 1..Len(own) |->
                       [term |-> own[j], frequency |-> Occurrences(words, own[j])]]
        sorted == Slice(SortByFrequency(entries), 20)
    IN  [j \in 1..Len(sorted) |-> [term |-> sorted[j].term, count |-> sorted[j].frequency]]

extractQueryAnalysis(transcripts) ==
    LET queries == allQueries(transcripts)
        uniqueQueries == SortByFrequency(queryFrequency(queries))
        wordCount == [i \in 1..Len(queries) |-> Len(WordsOf(queries[i]))]
        n == Len(queries)
    IN  [totalQueries |-> n,
         uniqueQueryCount |-> Len(uniqueQueries),
         uniqueQueries |-> Slice(uniqueQueries, 50),
         allUniqueQueries |-> uniqueQueries,
         queryLengthAnalysis |->
             [singleWordQueries |-> Cardinality({i \in 1..n : wordCount[i] = 1}),
              multiWordQueries |-> Cardinality({i \in 1..n : wordCount[i] # 1}),
              avgWordsPerQuery |->
                  IF n > 0 THEN Rounded(SumOver(n, wordCount), n, 100) ELSE 0],
         topSearchTerms |-> topSearchTerms(queries)]

\* a flattening that keeps one occurrence of every identifier
RECURSIVE flattenDistinct(_)
flattenDistinct(products) ==
    IF products.t = "array"
    THEN IF products.v = <<>> THEN <<>>
         ELSE LET head == flattenDistinct(Head(products.v))
                  tail == flattenDistinct(Arr(Tail(products.v)))
              IN  FirstSeen(head \o tail)
    ELSE IF products.t = "string" /\ Truthy(products) THEN <<products.v>>
    ELSE <<>>

(***************************************************************************)
(* extractProductInsights                                                  *)
(***************************************************************************)
\* flattenProducts: depth first, left to right; only non-empty strings are kept
RECURSIVE flattenProducts(_)
flattenProducts(products) ==
    IF products.t = "array"
    THEN IF products.v = <<>> THEN <<>>
         ELSE flattenProducts(Head(products.v)) \o flattenProducts(Arr(Tail(products.v)))
    ELSE IF products.t = "string" /\ Truthy(products) THEN <<products.v>>
    ELSE <<>>

\* extractProductInsights: allProductIds
RECURSIVE ProductIdsOf(_)
ProductIdsOf(msgs) ==
    IF msgs = <<>> THEN <<>>
    ELSE LET m == Head(msgs) IN
         (IF m.role = Str(<<"bot">>) /\ Truthy(m.results) /\ Truthy(m.results.v.products)
          THEN flattenProducts(m.results.v.products) ELSE <<>>)
         \o ProductIdsOf(Tail(msgs))

\* the styles of one payload: the non-blank ones, trimmed
StylesOf(styles) ==
    LET kept == SelectSeq(styles.v, LAMBDA x : Truthy(x) /\ Trim(x.v) # <<>>)
    IN  [i \in 1..Len(kept) |-> Trim(kept[i].v)]

\* extractProductInsights: allStyles
RECURSIVE AllStylesOf(_)
AllStylesOf(msgs) ==
    IF msgs = <<>> THEN <<>>
    ELSE LET m == Head(msgs) IN
         (IF m.role = Str(<<"bot">>) /\ Truthy(m.results) /\ Truthy(m.results.v.styles)
          THEN StylesOf(m.results.v.styles) ELSE <<>>)
         \o AllStylesOf(Tail(msgs))

Range(f) == {f[i] : i \in DOMAIN f}

\* the content of the first user message of the session, or 'unknown'
UserQueryOf(transcript) ==
    LET user == SelectSeq(transcript.messages, LAMBDA m : m.role = Str(<<"user">>))
    IN  IF user # <<>> /\ Truthy(user[1].content) THEN user[1].content.v
        ELSE <<"unknown">>

\* the product ids (or styles) of all sessions, each with the session's user query
RECURSIVE Recommended(_, _)
Recommended(transcripts, kind) ==
    IF transcripts = <<>> THEN <<>>
    ELSE LET items == IF kind = "products"
                      THEN ProductIdsOf(Head(transcripts).messages)
                      ELSE AllStylesOf(Head(transcripts).messages) IN
         [i \in 1..Len(items) |->
             [item |-> items[i], query |-> UserQueryOf(Head(transcripts))]]
         \o Recommended(Tail(transcripts), kind)

\* Array.from(the Set of queries recorded for the item)
QueriesFor(events, item) ==
    LET mine == SelectSeq(events, LAMBDA e : e.item = item)
    IN  FirstSeen([i \in 1..Len(mine) |-> mine[i].query])

extractProductInsights(transcripts) ==
    LET productEvents == Recommended(transcripts, "products")
        styleEvents == Recommended(transcripts, "styles")
        allProductIds == [i \in 1..Len(productEvents) |-> productEvents[i].item]
        allStyles == [i \in 1..Len(styleEvents) |-> styleEvents[i].item]
        productKeys == OwnKeys(allProductIds)
        styleKeys == OwnKeys(allStyles)
        products == SortByFrequency(
            [j \in 1..Len(productKeys) |->
                [productId |-> productKeys[j],
                 frequency |-> Occurrences(allProductIds, productKeys[j]),
                 associatedQueries |-> QueriesFor(productEvents, productKeys[j])]])
        styles == SortByFrequency(
            [j \in 1..Len(styleKeys) |->
                [style |-> styleKeys[j],
                 frequency |-> Occurrences(allStyles, styleKeys[j]),
                 exampleQueries |-> Slice(QueriesFor(styleEvents, styleKeys[j]), 5)]])
    IN  [totalProductsRecommended |-> Len(allProductIds),
         uniqueProductsRecommended |-> Cardinality(Range(allProductIds)),
         topRecommendedProducts |-> Slice(products, 20),
         allProductIds |-> FirstSeen(allProductIds),
         styleAnalysis |-> [totalStyles |-> Len(styleKeys),
                            totalStyleMentions |-> Len(allStyles),
                            topStyles |-> styles,
                            allStyles |-> styleKeys]]

(***************************************************************************)
(* extractBotResponseAnalysis                                              *)
(***************************************************************************)
\* the clarifying patterns, as phrases of lower-case tokens
clarifyingPhrases ==
    {<<"which", "SP", w>> : w \in {"location", "state", "city", "area", "option"}}
    \cup {<<"would", "SP", "you", "SP", "like", "SP", "me", "SP", "to">>}
    \cup {<<"can", "SP", "you", "SP", w>> : w \in {"tell", "clarify", "specify"}}
    \cup {<<"what", "SP", w>> : w \in {"type", "kind", "model", "year"}}
    \cup {<<"are", "SP", "you", "SP", "looking", "SP", "for">>}
    \cup {<<"do", "SP", "you", "SP", w>> : w \in {"want", "need", "prefer"}}
    \cup {<<"could", "SP", "you", "SP", "be", "SP", "more", "SP", "specific">>,
          <<"could", "SP", "you", "SP", "clarify">>}

IsClarifying(text) == \E phrase \in clarifyingPhrases : Includes(ToLowerCase(text), phrase)

\* the bot messages of a session that carry a results object
WithResults(transcript) ==
    SelectSeq(transcript.messages,
              LAMBDA m : m.role = Str(<<"bot">>) /\ Truthy(m.results))

\* the clarifying questions of all sessions; every text of the model is
\* shorter than the 200 characters that content.slice(0, 200) keeps
RECURSIVE ClarifyingQuestions(_)
ClarifyingQuestions(transcripts) ==
    IF transcripts = <<>> THEN <<>>
    ELSE LET t == Head(transcripts)
             asking == SelectSeq(t.messages,
                                 LAMBDA m : /\ m.role = Str(<<"bot">>)
                                            /\ Truthy(m.content)
                                            /\ IsClarifying(m.content.v))
         IN  [i \in 1..Len(asking) |->
                 [content |-> asking[i].content.v, sessionId |-> t.id]]
             \o ClarifyingQuestions(Tail(transcripts))

extractBotResponseAnalysis(transcripts) ==
    LET n == Len(transcripts)
        with == Cardinality({i \in 1..n : WithResults(transcripts[i]) # <<>>})
        events == SelectSeq(AllMessages(transcripts),
                            LAMBDA m : /\ m.role = Str(<<"bot">>)
                                       /\ Truthy(m.results)
                                       /\ Truthy(m.results.v.products))
        returned == [i \in 1..Len(events) |->
                        Len(flattenProducts(events[i].results.v.products))]
        questions == ClarifyingQuestions(transcripts)
    IN  [sessionsWithResults |->
             [count |-> with,
              percentage |-> IF n > 0 THEN Rounded(with * 100, n, 10) ELSE 0],
         sessionsWithoutResults |->
             [count |-> n - with,
              percentage |-> IF n > 0 THEN Rounded((n - with) * 100, n, 10) ELSE 0],
         avgProductsReturned |->
             IF Len(events) > 0
             THEN Rounded(SumOver(Len(events), returned), Len(events), 10) ELSE 0,
         clarifyingQuestions |-> [count |-> Len(questions),
                                  examples |-> Slice(questions, 10)]]

(***************************************************************************)
(* extractTimePatterns                                                     *)
(***************************************************************************)
\* date.getHours() and dayNames[date.getDay()] in the local time zone: instants
\* 1 and 3 fall on a Friday between 09:00 and 10:00, instant 2 on a Saturday
\* between 05:00 and 06:00
HourOf(ms) ==
    CASE ms = 1 -> <<"9">>
      [] ms = 2 -> <<"5">>
      [] OTHER -> <<"9">>
DayOf(ms) ==
    CASE ms = 1 -> <<"Friday">>
      [] ms = 2 -> <<"Saturday">>
      [] OTHER -> <<"Friday">>

\* the instants of the first messages that carry a valid timestamp
RECURSIVE FirstInstants(_)
FirstInstants(transcripts) ==
    IF transcripts = <<>> THEN <<>>
    ELSE LET msgs == Head(transcripts).messages IN
         (IF /\ msgs # <<>>
             /\ Truthy(msgs[1].timestamp)
             /\ DateOf(msgs[1].timestamp).valid
          THEN <<DateOf(msgs[1].timestamp).ms>> ELSE <<>>)
         \o FirstInstants(Tail(transcripts))

\* the counter object built from the keys, as the list of its entries
Counts(keys) ==
    LET own == OwnKeys(keys)
    IN  [j \in 1..Len(own) |-> [key |-> own[j], count |-> Occurrences(keys, own[j])]]

\* the loop that keeps the first entry whose count exceeds the maximum so far
Busiest(entries) ==
    IF entries = <<>> THEN Null
    ELSE LET i == CHOOSE i \in 1..Len(entries) :
                      /\ \A j \in 1..Len(entries) : entries[j].count <= entries[i].count
                      /\ \A j \in 1..(i - 1) : entries[j].count < entries[i].count
         IN  Str(entries[i].key)

\* formatHour(hour)
formatHour(hour) ==
    LET h == IndexValue(hour[1])
        nextHour == (h + 1) % 24
        display(x) == ToString(IF x % 12 = 0 THEN 12 ELSE x % 12)
        period(x) == IF x >= 12 THEN "PM" ELSE "AM"
    IN  <<display(h), ":00", "SP", period(h), "SP", "-", "SP",
          display(nextHour), ":00", "SP", period(nextHour)>>

extractTimePatterns(transcripts) ==
    LET instants == FirstInstants(transcripts)
        hourCounts == Counts([i \in 1..Len(instants) |-> HourOf(instants[i])])
        dayCounts == Counts([i \in 1..Len(instants) |-> DayOf(instants[i])])
        busiestHour == Busiest(hourCounts)
    IN  [busiestHour |-> IF busiestHour # Null THEN Str(formatHour(busiestHour.v))
                         ELSE Null,
         busiestDay |-> Busiest(dayCounts),
         hourlyDistribution |-> hourCounts,
         dailyDistribution |-> dayCounts]

(***************************************************************************)
(* extractRuleBasedMetrics                                                 *)
(***************************************************************************)
dataLimitations ==
    <<"No user engagement/click data available",
      "No conversion or purchase data",
      "Cannot determine user satisfaction">>

getEmptyMetrics ==
    [sessionOverview |->
         [totalSessions |-> 0,
          dateRange |-> [start |-> Null, end |-> Null, totalDays |-> 0]],
     turnAnalysis |->
         [singleTurnSessions |-> 0, multiTurnSessions |-> 0,
          avgTurnsPerSession |-> 0, maxTurnsInSession |-> 0],
     queryAnalysis |->
         [totalQueries |-> 0,
          uniqueQueries |-> <<>>,
          queryLengthAnalysis |-> [singleWordQueries |-> 0, multiWordQueries |-> 0,
                                   avgWordsPerQuery |-> 0],
          topSearchTerms |-> <<>>],
     productInsights |->
         [totalProductsRecommended |-> 0,
          uniqueProductsRecommended |-> 0,
          topRecommendedProducts |-> <<>>,
          styleAnalysis |-> [totalStyles |-> 0, topStyles |-> <<>>]],
     botResponseAnalysis |->
         [sessionsWithResults |-> [count |-> 0, percentage |-> 0],
          sessionsWithoutResults |-> [count |-> 0, percentage |-> 1000],
          avgProductsReturned |-> 0,
          clarifyingQuestions |-> [count |-> 0, examples |-> <<>>]],
     timePatterns |->
         [busiestHour |-> Null, busiestDay |-> Null, hourlyDistribution |-> <<>>],
     dataQualityNotes |->
         [totalTranscriptsAnalyzed |-> 0, extractionMethod |-> "rule-based"]]

\* the names every object inherits from Object.prototype
InheritedNames == {"__proto__", "constructor", "toString", "valueOf", "hasOwnProperty"}

\* productToQueries[productId].add(userQuery) and styleToQueries[style].add(...):
\* for an inherited name the map holds no Set, the inherited value is truthy
\* and has no add method, so the call throws a TypeError
extractProductInsightsThrows(transcripts) ==
    \E kind \in {"products", "styles"} :
        \E i \in 1..Len(Recommended(transcripts, kind)) :
            LET item == Recommended(transcripts, kind)[i].item
            IN  Len(item) = 1 /\ item[1] \in InheritedNames

\* queryFrequency[normalizedQuery].frequency++ when normalizedQuery is
\* "__proto__": queryFrequency[normalizedQuery] is then Object.prototype, and the
\* increment assigns it the own property frequency (NaN)
prototypeWrites(transcripts) ==
    IF \E i \in 1..Len(allQueries(transcripts)) :
           IsProtoKey(ToLowerCase(allQueries(transcripts)[i]))
    THEN {"frequency"}
    ELSE {}

extractRuleBasedMetricsThrows(transcripts) ==
    Len(transcripts) # 0 /\ extractProductInsightsThrows(transcripts)

extractRuleBasedMetrics(transcripts) ==
    IF Len(transcripts) = 0 THEN getEmptyMetrics
    ELSE [sessionOverview |-> extractSessionOverview(transcripts),
          turnAnalysis |-> extractTurnAnalysis(transcripts),
          queryAnalysis |-> extractQueryAnalysis(transcripts),
          productInsights |-> extractProductInsights(transcripts),
          botResponseAnalysis |-> extractBotResponseAnalysis(transcripts),
          timePatterns |-> extractTimePatterns(transcripts),
          dataQualityNotes |->
              [totalTranscriptsAnalyzed |-> Len(transcripts),
               extractionMethod |-> "rule-based",
               dataLimitations |-> dataLimitations]]

(***************************************************************************)
(* extractUserBehavior.  The patterns are matched on the lower-cased       *)
(* tokens of the query (all of them carry the i flag); a word of the query *)
(* vocabulary is one token.                                                *)
(***************************************************************************)
\* tokens that consist of digits
IsDigits(tok) == IndexValue(tok) >= 0

\* tokens that begin with a word character
IsWordTok(tok) ==
    tok \notin {"SP", "NL", "[", "]", ":", ",", ";", "-", "#", "$", SQ, DQ,
                "==========", ".txt", ".json", ".zip", ".md"}

\* tokens that consist of two or more letters
IsLetters(tok) ==
    /\ IsWordTok(tok)
    /\ ~IsDigits(tok)
    /\ TokLength(tok) >= 2
    /\ tok \notin {"__proto__", "can't", "don't", "i'm", "T0", "T1", "T2", "T3", "TX",
                   "s1", "s9", "p1", "p2", "p3", "m7", "u1"}

\* s has tok at position i
At(s, i, tok) == i >= 1 /\ i <= Len(s) /\ s[i] = tok

\* /\b(near|in|at|around|close to|nearby)\s+(me|my|location|\w+,?\s*\w*)/i
MatchesLocation(s) ==
    \/ \E i \in 1..Len(s) :
           /\ s[i] \in {"near", "in", "at", "around", "nearby"}
           /\ At(s, i + 1, "SP")
           /\ i + 2 <= Len(s) /\ IsWordTok(s[i + 2])
    \/ \E i \in 1..Len(s) :
           /\ s[i] = "close" /\ At(s, i + 1, "SP") /\ At(s, i + 2, "to")
           /\ At(s, i + 3, "SP")
           /\ i + 4 <= Len(s) /\ IsWordTok(s[i + 4])

\* /\b(price|cost|under|below|above|budget|\$\d+|cheap|expensive|affordable)/i
MatchesPrice(s) ==
    \/ \E i \in 1..Len(s) :
           s[i] \in {"price", "cost", "under", "below", "above", "budget", "cheap",
                     "expensive", "affordable"}
    \/ \E i \in 2..(Len(s) - 1) :
           s[i] = "$" /\ IsWordTok(s[i - 1]) /\ IsDigits(s[i + 1])

\* /\b(help|issue|problem|error|can'?t|unable|locked|not working|broken)/i
MatchesSupport(s) ==
    \/ \E i \in 1..Len(s) :
           s[i] \in {"help", "issue", "problem", "error", "can't", "cant", "unable",
                     "locked", "broken"}
    \/ Includes(s, <<"not", "SP", "working">>)

\* /\b(i'?m|i am|i want|i need|looking for|searching for|trying to find|do you have)/i
MatchesNaturalLanguage(s) ==
    \/ \E i \in 1..Len(s) : s[i] \in {"i'm", "im", "imac", "image"}
    \/ \E phrase \in {<<"i", "SP", "am">>, <<"i", "SP", "want">>, <<"i", "SP", "need">>,
                      <<"looking", "SP", "for">>, <<"searching", "SP", "for">>,
                      <<"trying", "SP", "to", "SP", "find">>,
                      <<"do", "SP", "you", "SP", "have">>} : Includes(s, phrase)

\* /\b([A-Z]{2,}\s*[-]?\s*\d+|\d{4,}|model|sku|item\s*#)/i
MatchesSpecificItem(s) ==
    \/ \E i \in 1..Len(s) :
           /\ IsLetters(s[i])
           /\ \E rest \in {<<>>, <<"SP">>, <<"-">>, <<"SP", "-">>, <<"-", "SP">>,
                           <<"SP", "-", "SP">>} :
                  /\ i + Len(rest) + 1 <= Len(s)
                  /\ SubSeq(s, i + 1, i + Len(rest)) = rest
                  /\ IsDigits(s[i + Len(rest) + 1])
    \/ \E i \in 1..Len(s) : s[i] \in {"2024", "2025"}
    \/ \E i \in 1..Len(s) : s[i] \in {"model", "sku"}
    \/ \E i \in 1..Len(s) :
           s[i] = "item" /\ (At(s, i + 1, "#") \/ (At(s, i + 1, "SP") /\ At(s, i + 2, "#")))

\* msg.content?.trim() || '', for the user messages of one session, without
\* the empty ones; the content of a normalized message of the model is a string
UserQueries(transcript) ==
    LET user == SelectSeq(transcript.messages,
                          LAMBDA m : /\ m.role = Str(<<"user">>)
                                     /\ m.content.t = "string"
                                     /\ Trim(m.content.v) # <<>>)
    IN  [i \in 1..Len(user) |-> Trim(user[i].content.v)]

RECURSIVE AllUserQueries(_)
AllUserQueries(transcripts) ==
    IF transcripts = <<>> THEN <<>>
    ELSE UserQueries(Head(transcripts)) \o AllUserQueries(Tail(transcripts))

\* a variant that takes a query for an advanced search from six words on
ComplexityOfStrict(query) ==
    LET wordCount == Len(WordsOf(query))
        s == ToLowerCase(query)
    IN  IF wordCount = 1 THEN "singleWord"
        ELSE IF MatchesNaturalLanguage(s) THEN "naturalLanguage"
        ELSE IF wordCount > 5 \/ (MatchesLocation(s) /\ MatchesPrice(s))
        THEN "advancedSearch"
        ELSE "simplePhrase"

\* the complexity tier of a query
ComplexityOf(query) ==
    LET wordCount == Len(WordsOf(query))
        s == ToLowerCase(query)
    IN  IF wordCount = 1 THEN "singleWord"
        ELSE IF MatchesNaturalLanguage(s) THEN "naturalLanguage"
        ELSE IF wordCount >= 5 \/ (MatchesLocation(s) /\ MatchesPrice(s))
        THEN "advancedSearch"
        ELSE "simplePhrase"

\* the intent counters that one query increments
IntentsOf(query) ==
    LET wordCount == Len(WordsOf(query))
        s == ToLowerCase(query)
    IN  (IF MatchesSupport(s) THEN {"supportRequest"}
         ELSE IF MatchesLocation(s) THEN {"locationQuery"}
         ELSE {})
        \cup (IF MatchesPrice(s) THEN {"priceInquiry"} ELSE {})
        \cup (IF MatchesSpecificItem(s) THEN {"specificItem"}
              ELSE IF wordCount <= 2 /\ ~MatchesLocation(s) /\ ~MatchesSupport(s)
              THEN {"categoryBrowse"}
              ELSE {"productSearch"})

\* a variant that keeps every entry of seen, whatever its count
RepeatedInUnfiltered(transcript) ==
    LET sessionQueries == [i \in 1..Len(UserQueries(transcript)) |->
                              ToLowerCase(UserQueries(transcript)[i])]
        own == OwnKeys(sessionQueries)
        entries == [j \in 1..Len(own) |->
                       [query |-> own[j],
                        count |-> Occurrences(sessionQueries, own[j]),
                        sessionId |-> transcript.id]]
    IN  IF Len(sessionQueries) > Cardinality(Range(sessionQueries))
        THEN entries
        ELSE <<>>

\* the entries of seen for one session whose count exceeds 1
RepeatedIn(transcript) ==
    LET sessionQueries == [i \in 1..Len(UserQueries(transcript)) |->
                              ToLowerCase(UserQueries(transcript)[i])]
        own == OwnKeys(sessionQueries)
        entries == [j \in 1..Len(own) |->
                       [query |-> own[j],
                        count |-> Occurrences(sessionQueries, own[j]),
                        sessionId |-> transcript.id]]
    IN  IF Len(sessionQueries) > Cardinality(Range(sessionQueries))
        THEN SelectSeq(entries, LAMBDA e : e.count > 1)
        ELSE <<>>

\* sessionQueries.length - uniqueInSession.size
RepeatCount(transcript) ==
    LET sessionQueries == [i \in 1..Len(UserQueries(transcript)) |->
                              ToLowerCase(UserQueries(transcript)[i])]
    IN  Len(sessionQueries) - Cardinality(Range(sessionQueries))

RECURSIVE RepeatedExamples(_)
RepeatedExamples(transcripts) ==
    IF transcripts = <<>> THEN <<>>
    ELSE RepeatedIn(Head(transcripts)) \o RepeatedExamples(Tail(transcripts))

\* Math.round((a / b) * 100), 0 when b is 0
Percent(a, b) == IF b > 0 THEN Rounded(a * 100, b, 1) ELSE 0

\* generateBehaviorInsights: the object it is handed for the repeats is the
\* local repeatedQueries, which has no percentage property
generateBehaviorInsights(complexity, repeats, intents, totalQueries, totalSessions) ==
    (IF totalQueries > 0 /\ 2 * complexity.singleWord > totalQueries
     THEN <<[type |-> "warning", title |-> "Basic Search Behavior",
             embedded |-> Number(Percent(complexity.singleWord, totalQueries))]>>
     ELSE IF complexity.advancedSearch > complexity.singleWord
     THEN <<[type |-> "positive", title |-> "Advanced Search Usage",
             embedded |-> Null]>>
     ELSE <<>>)
    \o (IF 10 * repeats.sessionsWithRepeats > totalSessions
        THEN <<[type |-> "warning", title |-> "Query Repetition Detected",
                embedded |-> Undefined]>>
        ELSE <<>>)
    \o (IF 5 * intents.locationQuery > totalQueries
        THEN <<[type |-> "info", title |-> "Location-Based Searches Popular",
                embedded |-> Null]>>
        ELSE <<>>)
    \o (IF intents.supportRequest > 0
        THEN <<[type |-> "warning", title |-> "Support Requests via Chatbot",
                embedded |-> Number(intents.supportRequest)]>>
        ELSE <<>>)

getEmptyUserBehavior ==
    [queryComplexity |->
         [singleWord |-> 0, simplePhrase |-> 0, advancedSearch |-> 0,
          naturalLanguage |-> 0, total |-> 0,
          percentages |-> [singleWord |-> 0, simplePhrase |-> 0, advancedSearch |-> 0,
                           naturalLanguage |-> 0],
          examples |-> [singleWord |-> <<>>, simplePhrase |-> <<>>,
                        advancedSearch |-> <<>>, naturalLanguage |-> <<>>]],
     repeatedQueries |->
         [sessionsWithRepeats |-> 0, totalRepeats |-> 0, percentage |-> 0,
          examples |-> <<>>],
     intentCategories |->
         [productSearch |-> 0, locationQuery |-> 0, priceInquiry |-> 0,
          supportRequest |-> 0, categoryBrowse |-> 0, specificItem |-> 0],
     insights |-> <<>>]

extractUserBehavior(transcripts) ==
    IF Len(transcripts) = 0 THEN getEmptyUserBehavior
    ELSE
    LET queries == AllUserQueries(transcripts)
        n == Len(transcripts)
        tier(name) == SelectSeq(queries, LAMBDA q : ComplexityOf(q) = name)
        intent(name) == Len(SelectSeq(queries, LAMBDA q : name \in IntentsOf(q)))
        queryComplexity ==
            [singleWord |-> Len(tier("singleWord")),
             simplePhrase |-> Len(tier("simplePhrase")),
             advancedSearch |-> Len(tier("advancedSearch")),
             naturalLanguage |-> Len(tier("naturalLanguage")),
             examples |-> [singleWord |-> Slice(tier("singleWord"), 5),
                           simplePhrase |-> Slice(tier("simplePhrase"), 5),
                           advancedSearch |-> Slice(tier("advancedSearch"), 5),
                           naturalLanguage |-> Slice(tier("naturalLanguage"), 5)]]
        repeatCount == [i \in 1..n |-> RepeatCount(transcripts[i])]
        repeatedQueries ==
            [sessionsWithRepeats |-> Cardinality({i \in 1..n : repeatCount[i] > 0}),
             totalRepeats |-> SumOver(n, repeatCount),
             examples |-> Slice(RepeatedExamples(transcripts), 5)]
        intentCategories ==
            [productSearch |-> intent("productSearch"),
             locationQuery |-> intent("locationQuery"),
             priceInquiry |-> intent("priceInquiry"),
             supportRequest |-> intent("supportRequest"),
             categoryBrowse |-> intent("categoryBrowse"),
             specificItem |-> intent("specificItem")]
        totalQueries == queryComplexity.singleWord + queryComplexity.simplePhrase
                        + queryComplexity.advancedSearch + queryComplexity.naturalLanguage
    IN  [queryComplexity |->
             [singleWord |-> queryComplexity.singleWord,
              simplePhrase |-> queryComplexity.simplePhrase,
              advancedSearch |-> queryComplexity.advancedSearch,
              naturalLanguage |-> queryComplexity.naturalLanguage,
              examples |-> queryComplexity.examples,
              total |-> totalQueries,
              percentages |->
                  [singleWord |-> Percent(queryComplexity.singleWord, totalQueries),
                   simplePhrase |-> Percent(queryComplexity.simplePhrase, totalQueries),
                   advancedSearch |-> Percent(queryComplexity.advancedSearch, totalQueries),
                   naturalLanguage |->
                       Percent(queryComplexity.naturalLanguage, totalQueries)]],
         repeatedQueries |->
             [sessionsWithRepeats |-> repeatedQueries.sessionsWithRepeats,
              totalRepeats |-> repeatedQueries.totalRepeats,
              examples |-> repeatedQueries.examples,
              percentage |-> Percent(repeatedQueries.sessionsWithRepeats, n)],
         intentCategories |-> intentCategories,
         insights |-> generateBehaviorInsights(queryComplexity, repeatedQueries,
                                               intentCategories, totalQueries, n)]

(***************************************************************************)
(* The application state and the analysis run before anything happens.     *)
(***************************************************************************)
\* initialState: uploadedFiles and parsedTranscripts
InitialState == [uploadedFiles |-> <<>>, parsedTranscripts |-> <<>>]

FlowIdle ==
    /\ appState = InitialState
    /\ closure = InitialState
    /\ flights = <<>>
    /\ runPc = "idle"
    /\ llmConfig = Null
    /\ llmReply = "none"
    /\ progressLog = <<>>
    /\ llmCalls = <<>>
    /\ runResults = Undefined
    /\ objectPrototype = {}
    /\ invocations = <<>>

(***************************************************************************)
(* The lines a file is made of.                                            *)
(***************************************************************************)
LineBlank == <<"SP">>
LineSeparator == <<"==========">>
LineUser == <<"SP", "[", "T2", "]", "SP", "USER", ":", "SP", "shoes", "SP">>
LineAi == <<"[", "T3", "]", "SP", "AI", ":", "SP", "here">>
LineBadDate == <<"[", "TX", "]", "SP", "USER", ":", "SP", "late">>
LineNoOffset == <<"[", "T0", "]", "AI", "SP", "ok">>
LineMarker == <<"[", "T1", "]", "SP", "CONVERSATION STARTED">>
LineResults ==
    <<"[", "T3", "]", "SP", "RESULTS", ":", "SP", "STYLES", ":", "SP",
      "[", SQ, "Bold", SQ, "]", ";", "SP", "PRODUCTS", "SP",
      "[", "[", SQ, "p1", SQ, ",", SQ, "p2", SQ, "]", "]">>
LineResults2 ==
    <<"[", "T2", "]", "SP", "RESULTS", ":", "SP", "PRODUCTS", "SP",
      "[", "[", SQ, "p3", SQ, "]">>
LineMore == <<"SP", "red", "SP", "RESULTS", "SP">>
LineMore2 == <<"cheap">>
LineLooseUser == <<"User", ":", "SP", "hello">>
LineLooseBot == <<"Bot", ":", "SP", "hi">>
LineSession == <<"Session", ":", "SP", "s1">>

Lines ==
    {LineBlank, LineSeparator, LineUser, LineAi, LineBadDate, LineNoOffset,
     LineMarker, LineResults, LineResults2, LineMore, LineMore2,
     LineLooseUser, LineLooseBot, LineSession}

\* the texts of at most MaxLines lines
Contents == UNION {[1..n -> Lines] : n \in 0..MaxLines}

FileName == <<"a.txt">>

(***************************************************************************)
(* Spec: parseTextTranscript on one text, the selected parser run line by  *)
(* line.                                                                   *)
(***************************************************************************)
TsLocals ==
    [messages |-> messages, currentMessage |-> currentMessage,
     earliestTimestamp |-> earliestTimestamp, latestTimestamp |-> latestTimestamp]

SimpleLocals ==
    [conversations |-> conversations, currentConversation |-> currentConversation]

Init ==
    /\ content \in Contents
    /\ filename = FileName
    /\ pc = "detect"
    /\ idx = 1
    /\ messages = TsStart.messages
    /\ currentMessage = TsStart.currentMessage
    /\ earliestTimestamp = TsStart.earliestTimestamp
    /\ latestTimestamp = TsStart.latestTimestamp
    /\ conversations = SimpleStart(FileName).conversations
    /\ currentConversation = SimpleStart(FileName).currentConversation
    /\ result = <<>>
    /\ files = <<>>
    /\ fileIdx = 1
    /\ results = <<>>
    /\ bpc = "idle"
    /\ allTranscripts = <<>>
    /\ renormalized = <<>>
    /\ metrics = getEmptyMetrics
    /\ userBehavior = Undefined
    /\ payload = <<>>
    /\ decoded = Undefined
    /\ FlowIdle

\* parseTextTranscript: select the grammar
Detect ==
    /\ pc = "detect"
    /\ pc' = IF TimestampPatternTest(Join(content)) THEN "ts" ELSE "simple"
    /\ UNCHANGED <<content, filename, idx, messages, currentMessage, earliestTimestamp,
                   latestTimestamp, conversations, currentConversation, result>>
    /\ UNCHANGED batchVars

\* parseTimestampedTranscript: one iteration of the loop
TsLine ==
    /\ pc = "ts"
    /\ idx <= Len(content)
    /\ LET st == TsStep(TsLocals, content[idx]) IN
        /\ messages' = st.messages
        /\ currentMessage' = st.currentMessage
        /\ earliestTimestamp' = st.earliestTimestamp
        /\ latestTimestamp' = st.latestTimestamp
    /\ idx' = idx + 1
    /\ UNCHANGED <<content, filename, pc, conversations, currentConversation, result>>
    /\ UNCHANGED batchVars

\* parseTimestampedTranscript: after the loop
TsFinish ==
    /\ pc = "ts"
    /\ idx > Len(content)
    /\ messages' = TsLast(TsLocals)
    /\ IF TsThrows(TsLocals)
       THEN pc' = "tsThrew" /\ result' = result
       ELSE pc' = "tsDone" /\ result' = TsReturn(TsLocals, filename)
    /\ UNCHANGED <<content, filename, idx, currentMessage, earliestTimestamp,
                   latestTimestamp, conversations, currentConversation>>
    /\ UNCHANGED batchVars

\* parseSimpleTextTranscript: one iteration of the loop
SimpleLine ==
    /\ pc = "simple"
    /\ idx <= Len(SimpleLines(content))
    /\ LET st == SimpleStep(SimpleLocals, SimpleLines(content)[idx]) IN
        /\ conversations' = st.conversations
        /\ currentConversation' = st.currentConversation
    /\ idx' = idx + 1
    /\ UNCHANGED <<content, filename, pc, messages, currentMessage, earliestTimestamp,
                   latestTimestamp, result>>
    /\ UNCHANGED batchVars

\* parseSimpleTextTranscript: after the loop
SimpleFinish ==
    /\ pc = "simple"
    /\ idx > Len(SimpleLines(content))
    /\ conversations' = PushConversation(conversations, currentConversation)
    /\ result' = SimpleReturn(SimpleLocals, content, filename)
    /\ pc' = "simpleDone"
    /\ UNCHANGED <<content, filename, idx, messages, currentMessage, earliestTimestamp,
                   latestTimestamp, currentConversation>>
    /\ UNCHANGED batchVars

Next == Detect \/ TsLine \/ TsFinish \/ SimpleLine \/ SimpleFinish

Spec == Init /\ [][Next]_vars

(***************************************************************************)
(* What a text says, line by line, stated without the parser's state.      *)
(***************************************************************************)
TsPcs == {"ts", "tsDone", "tsThrew"}

\* "skip", "text", or the role keyword of a line of the [timestamp] ROLE grammar
LineKind(line) ==
    LET t == Trim(line) IN
    IF t = <<>> \/ IsSeparator(t) THEN "skip"
    ELSE IF ~MatchLinePattern(t).ok THEN "text"
    ELSE ToUpperCaseTok(MatchLinePattern(t).role)

\* the indices, among the first n lines, of the USER and AI lines
MessageLines(n) ==
    SelectSeq([i \in 1..n |-> i], LAMBDA i : LineKind(content[i]) \in {"USER", "AI"})

\* the unprefixed lines that follow line i - 1 up to the next grammar line,
\* each trimmed and preceded by one space
RECURSIVE FragmentsFrom(_, _)
FragmentsFrom(i, n) ==
    IF i > n \/ LineKind(content[i]) \notin {"skip", "text"} THEN <<>>
    ELSE (IF LineKind(content[i]) = "text" THEN <<"SP">> \o Trim(content[i]) ELSE <<>>)
         \o FragmentsFrom(i + 1, n)

ExpectedContent(m, n) ==
    Trim(MatchLinePattern(Trim(content[m])).content) \o FragmentsFrom(m + 1, n)

\* the messages emitted so far, the open one included
Emitted ==
    IF pc = "ts" /\ currentMessage # Null THEN Append(messages, currentMessage)
    ELSE messages

\* the RESULTS lines, among the first n, whose nearest preceding message line is m
ResultsLinesAfter(m, n) ==
    {r \in (m + 1)..n :
        /\ LineKind(content[r]) = "RESULTS"
        /\ \A j \in (m + 1)..(r - 1) : LineKind(content[j]) \notin {"USER", "AI"}}

Max(S) == CHOOSE x \in S : \A y \in S : y <= x
Min(S) == CHOOSE x \in S : \A y \in S : x <= y

PayloadOf(r) == Obj(parseResultsContent(MatchLinePattern(Trim(content[r])).content))

Bot == Str(<<"bot">>)
User == Str(<<"user">>)

(***************************************************************************)
(* C1.  Timestamped-log parser: an unprefixed, non-blank, non-separator    *)
(* line read while a message is open creates no message; it is appended,   *)
(* trimmed, after one space, in arrival order.  So there are as many       *)
(* messages as USER and AI lines, and the content of each is the content   *)
(* of its line followed by the unprefixed lines up to the next grammar     *)
(* line.                                                                   *)
(***************************************************************************)
ContinuationMerging ==
    pc \in TsPcs =>
        LET n == idx - 1
            ml == MessageLines(n)
        IN  /\ Len(Emitted) = Len(ml)
            /\ \A k \in 1..Len(ml) :
                   Emitted[k].content = Str(ExpectedContent(ml[k], n))

ContinuationMergingWitness ==
    /\ pc = "tsDone"
    /\ content = <<LineUser, LineMore, LineMore2>>
    /\ Len(result) = 1
    /\ Len(result[1].messages) = 1
    /\ result[1].messages[1].role = User
    /\ result[1].messages[1].content =
           Str(<<"shoes", "SP", "red", "SP", "RESULTS", "SP", "cheap">>)

(***************************************************************************)
(* C2.  Every message that carries results is a bot message, and it is     *)
(* followed by a RESULTS line with no USER or AI line in between: a        *)
(* RESULTS line that follows a user message, or no message, attaches       *)
(* nothing.                                                                *)
(***************************************************************************)
ResultsOnlyOnBot ==
    pc \in TsPcs =>
        LET n == idx - 1
            ml == MessageLines(n)
        IN  \A k \in 1..Len(Emitted) :
                Emitted[k].results # Undefined =>
                    /\ Emitted[k].role = Bot
                    /\ k <= Len(ml)
                    /\ ResultsLinesAfter(ml[k], n) # {}

ResultsOnlyOnBotWitness ==
    /\ pc = "tsDone"
    /\ content = <<LineAi, LineUser, LineResults>>
    /\ Len(result[1].messages) = 2
    /\ \A k \in 1..2 : result[1].messages[k].results = Undefined

(***************************************************************************)
(* C3 as stated: a RESULTS line is attached to the most recently emitted   *)
(* bot message of the file, and is dropped only when there is none.        *)
(***************************************************************************)
ResultsAttachToMostRecentBot ==
    pc \in TsPcs =>
        LET n == idx - 1
            ml == MessageLines(n)
        IN  \A r \in 1..n :
                LET bots == {k \in 1..Len(ml) : ml[k] < r /\ Emitted[k].role = Bot} IN
                (LineKind(content[r]) = "RESULTS" /\ Len(Emitted) = Len(ml) /\ bots # {})
                    => Emitted[Max(bots)].results # Undefined

(***************************************************************************)
(* C3 amended: a RESULTS line is decoded and attached to the most recently *)
(* emitted message when that message is a bot message, and is dropped      *)
(* otherwise.  A message carries the payload of the latest RESULTS line    *)
(* that follows it with no USER or AI line in between.                     *)
(***************************************************************************)
ResultsAttachToPrecedingBot ==
    pc \in TsPcs =>
        LET n == idx - 1
            ml == MessageLines(n)
        IN  /\ Len(Emitted) = Len(ml)
            /\ \A k \in 1..Len(ml) :
                   Emitted[k].results =
                       IF Emitted[k].role = Bot /\ ResultsLinesAfter(ml[k], n) # {}
                       THEN PayloadOf(Max(ResultsLinesAfter(ml[k], n)))
                       ELSE Undefined

ResultsAttachWitness ==
    /\ pc = "tsDone"
    /\ content = <<LineAi, LineResults, LineUser>>
    /\ Len(result[1].messages) = 2
    /\ result[1].messages[1].results = PayloadOf(2)
    /\ result[1].messages[1].results.v.products # Undefined
    /\ result[1].messages[2].results = Undefined

(***************************************************************************)
(* C4.  The results of a message are set at most once: a message followed  *)
(* by RESULTS lines keeps the payload of the first of them.                *)
(***************************************************************************)
ResultsSetAtMostOnce ==
    pc \in TsPcs =>
        LET n == idx - 1
            ml == MessageLines(n)
        IN  \A k \in 1..Len(ml) :
                (/\ Len(Emitted) = Len(ml)
                 /\ Emitted[k].role = Bot
                 /\ ResultsLinesAfter(ml[k], n) # {})
                    => Emitted[k].results = PayloadOf(Min(ResultsLinesAfter(ml[k], n)))

(***************************************************************************)
(* C5.  The parser returns, for every text, one session that holds the     *)
(* messages of all USER and AI lines in their order, whatever the number   *)
(* of CONVERSATION STARTED markers.                                        *)
(***************************************************************************)
RoleOfLine(i) == IF LineKind(content[i]) = "USER" THEN User ELSE Bot

OneSessionPerFile ==
    (pc \in TsPcs /\ idx > Len(content) /\ pc # "ts") =>
        LET ml == MessageLines(Len(content)) IN
        /\ pc = "tsDone"
        /\ Len(result) = 1
        /\ Len(result[1].messages) = Len(ml)
        /\ \A k \in 1..Len(ml) : result[1].messages[k].role = RoleOfLine(ml[k])

(***************************************************************************)
(* C7.  A timestamp that is no valid date does not make the parser fail    *)
(* and does not affect the date range: start and end are the minimum and   *)
(* the maximum of the valid timestamps, null when there are none.          *)
(***************************************************************************)
ValidTimes ==
    {NewDate(MatchLinePattern(Trim(content[i])).timestamp[1]).ms :
        i \in {j \in 1..Len(content) :
                  /\ LineKind(content[j]) \notin {"skip", "text"}
                  /\ NewDate(MatchLinePattern(Trim(content[j])).timestamp[1]).valid}}

InvalidDateIgnored ==
    /\ pc # "tsThrew"
    /\ pc = "tsDone" =>
           result[1].metadata.dateRange =
               Obj([start |-> IF ValidTimes = {} THEN Null
                              ELSE Str(<<IsoTok(Min(ValidTimes))>>),
                    end |-> IF ValidTimes = {} THEN Null
                            ELSE Str(<<IsoTok(Max(ValidTimes))>>)])

(***************************************************************************)
(* C8.  Whichever grammar is selected, a text in which no message is       *)
(* recognized yields one session with one message of role unknown holding  *)
(* the whole text; no session with an empty message list is returned.      *)
(***************************************************************************)
ZeroMessagesFallback ==
    pc \in {"tsDone", "simpleDone"} =>
        /\ \A i \in 1..Len(result) : Len(result[i].messages) > 0
        /\ \/ \A i \in 1..Len(result) : \A k \in 1..Len(result[i].messages) :
                  result[i].messages[k].role \in {User, Bot}
           \/ result = UnknownSession(content, filename)

(***************************************************************************)
(* SpecBatch: an upload of files through parseUploadedFiles,               *)
(* normalizeTranscripts and extractRuleBasedMetrics.                       *)
(***************************************************************************)
\* a file or a zip member: name, whether reading it succeeds, its text and the
\* value of JSON.parse on it; the members of an archive; whether it is a directory
File(name, readable, text, doc) ==
    [name |-> name, readable |-> readable, text |-> text, doc |-> doc,
     members |-> <<>>, dir |-> FALSE]

Zip(name, loadable, members) ==
    [name |-> name, readable |-> loadable, text |-> <<>>, doc |-> NotJson,
     members |-> members, dir |-> FALSE]

JsonText == <<<<"{json}">>>>

\* a timestamped log of two conversations: three user turns, one RESULTS line
FileA ==
    File(<<"a", ".txt">>, TRUE,
         <<LineMarker, LineUser, LineAi, LineResults, LineMarker, LineUser, LineUser>>,
         NotJson)
FileA2 ==
    File(<<"session_", "u1", "_transcript", ".txt">>, TRUE,
         <<LineUser, LineAi, LineResults, LineMore, LineMarker, LineUser, LineAi,
           LineUser>>,
         NotJson)
\* loose text with one pair
FileB == File(<<"b", ".txt">>, TRUE, <<LineLooseUser, LineLooseBot>>, NotJson)
\* a file that cannot be read
FileUnreadable == File(<<"c", ".txt">>, FALSE, <<>>, NotJson)
\* a timestamped log whose first timestamp is no date
FileBadDate == File(<<"d", ".txt">>, TRUE, <<LineBadDate, LineAi>>, NotJson)
\* loose text whose session line names no id
FileNoId ==
    File(<<"e", ".txt">>, TRUE, <<<<"Session", ":", "SP">>, LineLooseUser>>, NotJson)
\* [{"session_id": "s9", "messages": [{"sender": "Customer", "text": "Transfer me"},
\*                                    {"role": "assistant", "content": "ok"}]}]
FileJsonSender ==
    File(<<"f", ".json">>, TRUE, JsonText,
         Arr(<<Obj([JsonObject EXCEPT
                !.session_id = Str(<<"s9">>),
                !.messages = Arr(<<
                    [AsMessage(JsonObject) EXCEPT
                        !.sender = Str(<<"Customer">>),
                        !.text = Str(<<"Transfer", "SP", "me">>)],
                    [AsMessage(JsonObject) EXCEPT
                        !.role = Str(<<"assistant">>),
                        !.content = Str(<<"ok">>)]>>)])>>))
\* {"messages": [{"role": 5, "content": "x"}]}
FileJsonNumberRole ==
    File(<<"g", ".json">>, TRUE, JsonText,
         Obj([JsonObject EXCEPT
                !.messages = Arr(<<[AsMessage(JsonObject) EXCEPT
                                       !.role = Num5, !.content = Str(<<"x">>)]>>)]))
\* [null]
FileJsonNull == File(<<"h", ".json">>, TRUE, JsonText, Arr(<<Null>>))
\* {"id": "m7", "role": "user", "content": "tracking"}
FileJsonSingle ==
    File(<<"i", ".json">>, TRUE, JsonText,
         Obj([JsonObject EXCEPT !.id = Str(<<"m7">>), !.role = Str(<<"user">>),
                                !.content = Str(<<"tracking">>)]))
\* an archive: a text member, a member that cannot be read, a directory, a member
\* of another type
FileZip ==
    Zip(<<"z", ".zip">>, TRUE,
        <<File(<<"m1", ".txt">>, TRUE, <<LineLooseUser, LineLooseBot>>, NotJson),
          File(<<"m2", ".txt">>, FALSE, <<>>, NotJson),
          [File(<<"dir/">>, TRUE, <<>>, NotJson) EXCEPT !.dir = TRUE],
          File(<<"notes", ".md">>, TRUE, <<LineLooseUser>>, NotJson)>>)
\* an archive that cannot be opened
FileZipCorrupt == Zip(<<"y", ".zip">>, FALSE, <<>>)

FileSet ==
    {FileA, FileA2, FileB, FileUnreadable, FileBadDate, FileNoId, FileJsonSender,
     FileJsonNumberRole, FileJsonNull, FileJsonSingle, FileZip, FileZipCorrupt}

Batches == UNION {[1..n -> FileSet] : n \in 1..MaxFiles}

EndsWith(name, ext) == name # <<>> /\ name[Len(name)] = ext

Failed(name, message) ==
    [filename |-> name, transcripts |-> <<>>, error |-> Str(<<message>>)]

\* the try block of one file or archive member
ParseOne(f) ==
    IF ~f.readable THEN Failed(f.name, "Failed to read file")
    ELSE IF parseTranscriptContent(f, f.name).threw
    THEN Failed(f.name, "Invalid time value")
    ELSE [filename |-> f.name,
          transcripts |-> parseTranscriptContent(f, f.name).value,
          error |-> Null]

\* parseZipFile: the members that are files of type .txt or .json, one entry each
parseZipFile(f) ==
    LET fileEntries ==
            SelectSeq(f.members,
                      LAMBDA e : ~e.dir /\ (EndsWith(e.name, ".txt")
                                            \/ EndsWith(e.name, ".json")))
    IN  [i \in 1..Len(fileEntries) |-> ParseOne(fileEntries[i])]

\* the entries one iteration of the loop of parseUploadedFiles pushes
EntriesOf(f) ==
    IF EndsWith(f.name, ".zip")
    THEN IF f.readable THEN parseZipFile(f)
         ELSE <<Failed(f.name, "Corrupted zip")>>
    ELSE <<ParseOne(f)>>

InitBatch ==
    /\ files \in Batches
    /\ fileIdx = 1
    /\ results = <<>>
    /\ bpc = "parsing"
    /\ allTranscripts = <<>>
    /\ renormalized = <<>>
    /\ metrics = getEmptyMetrics
    /\ userBehavior = Undefined
    /\ payload = <<>>
    /\ decoded = Undefined
    /\ content = <<>>
    /\ filename = FileName
    /\ pc = "idle"
    /\ idx = 1
    /\ messages = <<>>
    /\ currentMessage = Null
    /\ earliestTimestamp = Null
    /\ latestTimestamp = Null
    /\ conversations = <<>>
    /\ currentConversation = NewConversation(Str(FileName))
    /\ result = <<>>
    /\ FlowIdle

\* parseUploadedFiles: one iteration of the loop over the files
ParseFile ==
    /\ bpc = "parsing"
    /\ fileIdx <= Len(files)
    /\ results' = results \o EntriesOf(files[fileIdx])
    /\ fileIdx' = fileIdx + 1
    /\ UNCHANGED <<files, bpc, allTranscripts, renormalized, metrics>>
    /\ UNCHANGED <<textVars, analysisVars, flowVars>>

\* processFiles: normalizeTranscripts(parsed)
Normalize ==
    /\ bpc = "parsing"
    /\ fileIdx > Len(files)
    /\ IF normalizeTranscripts(results).threw
       THEN bpc' = "normalizeThrew" /\ allTranscripts' = allTranscripts
       ELSE bpc' = "normalized" /\ allTranscripts' = normalizeTranscripts(results).value
    /\ UNCHANGED <<files, fileIdx, results, renormalized, metrics>>
    /\ UNCHANGED <<textVars, analysisVars, flowVars>>

\* each normalized session wrapped again under its file name
Rewrap(transcripts) ==
    [i \in 1..Len(transcripts) |->
        [filename |-> transcripts[i].sourceFile.v,
         transcripts |-> <<transcripts[i]>>,
         error |-> Null]]

\* normalizeTranscripts on sessions that are already normalized
Renormalize ==
    /\ bpc = "normalized"
    /\ IF normalizeTranscripts(Rewrap(allTranscripts)).threw
       THEN bpc' = "renormalizeThrew" /\ renormalized' = renormalized
       ELSE /\ bpc' = "renormalized"
            /\ renormalized' = normalizeTranscripts(Rewrap(allTranscripts)).value
    /\ UNCHANGED <<files, fileIdx, results, allTranscripts, metrics>>
    /\ UNCHANGED <<textVars, analysisVars, flowVars>>

\* runAnalysis: extractRuleBasedMetrics(transcripts)
ExtractMetrics ==
    /\ bpc = "normalized"
    /\ IF extractRuleBasedMetricsThrows(allTranscripts)
       THEN bpc' = "metricsThrew" /\ metrics' = metrics
       ELSE bpc' = "metrics" /\ metrics' = extractRuleBasedMetrics(allTranscripts)
    /\ objectPrototype' = objectPrototype \cup prototypeWrites(allTranscripts)
    /\ UNCHANGED <<files, fileIdx, results, allTranscripts, renormalized>>
    /\ UNCHANGED <<textVars, analysisVars, runVars, invocations>>

NextBatch == ParseFile \/ Normalize \/ Renormalize \/ ExtractMetrics

SpecBatch == InitBatch /\ [][NextBatch]_vars

(***************************************************************************)
(* C6 as stated: file A (a timestamped log of two conversations separated  *)
(* by a CONVERSATION STARTED marker, three user turns, one RESULTS line    *)
(* STYLES: ['Bold']; PRODUCTS [['p1','p2']] after a bot message) and file  *)
(* B (User: hello / Bot: hi) give totalSessions = 3, totalQueries = 4,     *)
(* uniqueProductsRecommended = 2 and totalStyles = 1.                      *)
(***************************************************************************)
ScenarioBatches ==
    {<<FileA, FileB>>, <<FileB, FileA>>, <<FileA2, FileB>>, <<FileB, FileA2>>}

EndToEndAsStated ==
    (bpc = "metrics" /\ files \in ScenarioBatches) =>
        /\ metrics.sessionOverview.totalSessions = 3
        /\ metrics.queryAnalysis.totalQueries = 4
        /\ metrics.productInsights.uniqueProductsRecommended = 2
        /\ metrics.productInsights.styleAnalysis.totalStyles = 1

(***************************************************************************)
(* C6 amended: the same two files give totalSessions = 2 (one session per  *)
(* file; the marker does not split file A), totalQueries = 4,              *)
(* uniqueProductsRecommended = 2 and totalStyles = 1.                      *)
(***************************************************************************)
EndToEndScenario ==
    (bpc = "metrics" /\ files \in ScenarioBatches) =>
        /\ metrics.sessionOverview.totalSessions = 2
        /\ metrics.queryAnalysis.totalQueries = 4
        /\ metrics.productInsights.uniqueProductsRecommended = 2
        /\ metrics.productInsights.styleAnalysis.totalStyles = 1

EndToEndWitness ==
    /\ bpc = "metrics"
    /\ files = <<FileA, FileB>>
    /\ Len(allTranscripts) = 2
    /\ Len(allTranscripts[1].messages) = 4
    /\ metrics.sessionOverview.totalSessions = 2
    /\ metrics.queryAnalysis.totalQueries = 4
    /\ metrics.productInsights.uniqueProductsRecommended = 2

(***************************************************************************)
(* C9.  Per-file isolation: parseUploadedFiles returns an entry for every  *)
(* file and every archive member, a failing one with no transcripts and    *)
(* its error; normalizeTranscripts then returns the sessions of the        *)
(* entries without error, in order, and no file's content keeps the        *)
(* sessions of the other files from being returned.                        *)
(***************************************************************************)
\* the names of the entries a file gives
EntryNames(f) ==
    IF EndsWith(f.name, ".zip") /\ f.readable
    THEN LET kept == SelectSeq(f.members,
                               LAMBDA e : ~e.dir /\ e.name[Len(e.name)] \in {".txt", ".json"})
         IN  [i \in 1..Len(kept) |-> kept[i].name]
    ELSE <<f.name>>

RECURSIVE AllEntryNames(_)
AllEntryNames(fs) ==
    IF fs = <<>> THEN <<>> ELSE EntryNames(Head(fs)) \o AllEntryNames(Tail(fs))

\* the file name of every session of the entries without error, in order
RECURSIVE SessionFiles(_)
SessionFiles(entries) ==
    IF entries = <<>> THEN <<>>
    ELSE [i \in 1..Len(Head(entries).transcripts) |-> Str(Head(entries).filename)]
         \o SessionFiles(Tail(entries))

FileIsolation ==
    /\ (bpc # "parsing" \/ fileIdx > Len(files)) =>
           /\ [i \in 1..Len(results) |-> results[i].filename] = AllEntryNames(files)
           /\ \A i \in 1..Len(results) :
                  Truthy(results[i].error) => results[i].transcripts = <<>>
    /\ bpc = "normalizeThrew" =>
           \A i \in 1..Len(results) :
               \/ results[i].transcripts = <<>>
               \/ \E k \in 1..Len(results[i].transcripts) :
                      normalizeTranscriptThrows(results[i].transcripts[k])
    /\ bpc \in {"normalized", "renormalized", "metrics"} =>
           [i \in 1..Len(allTranscripts) |-> allTranscripts[i].sourceFile]
               = SessionFiles(results)

(***************************************************************************)
(* C10.  Normalization is idempotent: normalizing the sessions that        *)
(* normalizeTranscripts returned, each under its file name, gives the      *)
(* same sessions, metadata included.                                       *)
(***************************************************************************)
NormalizationIdempotent ==
    bpc \in {"renormalized", "renormalizeThrew"} =>
        /\ bpc = "renormalized"
        /\ renormalized = allTranscripts

(***************************************************************************)
(* C11.  In every session that normalizeTranscripts returned, userTurns is *)
(* the number of its messages whose normalized role is user, botTurns the  *)
(* number whose normalized role is bot, and messageCount is the number of  *)
(* its messages.                                                           *)
(***************************************************************************)
RoleCount(session, role) ==
    Cardinality({i \in 1..Len(session.messages) : session.messages[i].role = Str(role)})

MessageCountMatches ==
    bpc \in {"normalized", "renormalized", "renormalizeThrew", "metrics"} =>
        \A i \in 1..Len(allTranscripts) :
            allTranscripts[i].metadata.messageCount
                = Number(Len(allTranscripts[i].messages))

TurnCountsMatchRoles ==
    /\ MessageCountMatches
    /\ bpc \in {"normalized", "renormalized", "renormalizeThrew", "metrics"} =>
           \A i \in 1..Len(allTranscripts) :
               /\ allTranscripts[i].metadata.userTurns
                      = Number(RoleCount(allTranscripts[i], <<"user">>))
               /\ allTranscripts[i].metadata.botTurns
                      = Number(RoleCount(allTranscripts[i], <<"bot">>))

(***************************************************************************)
(* C12.  The snapshot returned for the empty session list has every field  *)
(* that the snapshot of a non-empty list has, at every nesting level, and  *)
(* each of them is zero or empty; the data quality notes carry the         *)
(* transcript count and the fixed limitation strings.                      *)
(***************************************************************************)
\* the field names of a snapshot, level by level
FieldsOf(m) ==
    [snapshot |-> DOMAIN m,
     sessionOverview |-> DOMAIN m.sessionOverview,
     dateRange |-> DOMAIN m.sessionOverview.dateRange,
     turnAnalysis |-> DOMAIN m.turnAnalysis,
     queryAnalysis |-> DOMAIN m.queryAnalysis,
     queryLengthAnalysis |-> DOMAIN m.queryAnalysis.queryLengthAnalysis,
     productInsights |-> DOMAIN m.productInsights,
     styleAnalysis |-> DOMAIN m.productInsights.styleAnalysis,
     botResponseAnalysis |-> DOMAIN m.botResponseAnalysis,
     sessionsWithResults |-> DOMAIN m.botResponseAnalysis.sessionsWithResults,
     sessionsWithoutResults |-> DOMAIN m.botResponseAnalysis.sessionsWithoutResults,
     clarifyingQuestions |-> DOMAIN m.botResponseAnalysis.clarifyingQuestions,
     timePatterns |-> DOMAIN m.timePatterns,
     dataQualityNotes |-> DOMAIN m.dataQualityNotes]

\* the snapshot of a non-empty list: the session of b.txt, which has no timestamps
NonEmptySnapshot == extractRuleBasedMetrics(normalizeTranscripts(<<ParseOne(FileB)>>).value)

EmptyInput == bpc = "metrics" /\ allTranscripts = <<>>

\* the sections themselves are all present
EmptySnapshotSections ==
    EmptyInput => FieldsOf(metrics).snapshot = FieldsOf(NonEmptySnapshot).snapshot

\* the counters that the empty snapshot does carry
EmptySnapshotCountsZero ==
    EmptyInput =>
        /\ metrics.sessionOverview.totalSessions = 0
        /\ metrics.turnAnalysis.singleTurnSessions = 0
        /\ metrics.turnAnalysis.multiTurnSessions = 0
        /\ metrics.queryAnalysis.totalQueries = 0
        /\ metrics.queryAnalysis.uniqueQueries = <<>>
        /\ metrics.productInsights.totalProductsRecommended = 0
        /\ metrics.botResponseAnalysis.sessionsWithResults.count = 0
        /\ metrics.botResponseAnalysis.sessionsWithoutResults.count = 0
        /\ metrics.dataQualityNotes.totalTranscriptsAnalyzed = 0

EmptySnapshotComplete ==
    /\ EmptySnapshotSections
    /\ EmptySnapshotCountsZero
    /\ EmptyInput =>
           /\ \A level \in DOMAIN FieldsOf(NonEmptySnapshot) :
                  FieldsOf(NonEmptySnapshot)[level] \subseteq FieldsOf(metrics)[level]
           /\ metrics.botResponseAnalysis.sessionsWithoutResults.percentage = 0

(***************************************************************************)
(* The results decoder on its own: parseResultsContent applied to one      *)
(* payload text.                                                           *)
(***************************************************************************)
PayloadTokens == {"STYLES", ":", "PRODUCTS", "[", "]", SQ, "a", ","}

Quote(id) == <<SQ, id, SQ>>

\* STYLES: ['Bold']; PRODUCTS [['p1','p2']]
PayloadStylesProducts ==
    <<"STYLES", ":", "SP", "[">> \o Quote("Bold") \o <<"]", ";", "SP", "PRODUCTS", "SP",
      "[", "[">> \o Quote("p1") \o <<",">> \o Quote("p2") \o <<"]", "]">>
\* PRODUCTS [['a','b'],['c']]
PayloadNested ==
    <<"PRODUCTS", "SP", "[", "[">> \o Quote("a") \o <<",">> \o Quote("b")
    \o <<"]", ",", "[">> \o Quote("c") \o <<"]", "]">>
\* PRODUCTS [['a','a'],['b']]
PayloadDuplicates ==
    <<"PRODUCTS", "SP", "[", "[">> \o Quote("a") \o <<",">> \o Quote("a")
    \o <<"]", ",", "[">> \o Quote("b") \o <<"]", "]">>
\* PRODUCTS ['__proto__']
PayloadInherited == <<"PRODUCTS", "SP", "[">> \o Quote("__proto__") \o <<"]">>
\* PRODUCTS ['a','b']
PayloadFlat ==
    <<"PRODUCTS", "SP", "[">> \o Quote("a") \o <<",">> \o Quote("b") \o <<"]">>
\* PRODUCTS [['p1','p2']
PayloadUnbalanced ==
    <<"PRODUCTS", "SP", "[", "[">> \o Quote("p1") \o <<",">> \o Quote("p2") \o <<"]">>
\* PRODUCTS [['p1','p2'
PayloadUnclosed ==
    <<"PRODUCTS", "SP", "[", "[">> \o Quote("p1") \o <<",">> \o Quote("p2")

Payloads ==
    {PayloadStylesProducts, PayloadNested, PayloadDuplicates, PayloadFlat,
     PayloadUnbalanced, PayloadUnclosed}
    \cup UNION {[1..n -> PayloadTokens] : n \in 0..MaxPayload}

InitDecoder ==
    /\ payload \in Payloads
    /\ decoded = Undefined
    /\ userBehavior = Undefined
    /\ files = <<>>
    /\ fileIdx = 1
    /\ results = <<>>
    /\ bpc = "idle"
    /\ allTranscripts = <<>>
    /\ renormalized = <<>>
    /\ metrics = getEmptyMetrics
    /\ content = <<>>
    /\ filename = FileName
    /\ pc = "idle"
    /\ idx = 1
    /\ messages = <<>>
    /\ currentMessage = Null
    /\ earliestTimestamp = Null
    /\ latestTimestamp = Null
    /\ conversations = <<>>
    /\ currentConversation = NewConversation(Str(FileName))
    /\ result = <<>>
    /\ FlowIdle

\* parseResultsContent(content)
Decode ==
    /\ decoded = Undefined
    /\ decoded' = Obj(parseResultsContent(payload))
    /\ UNCHANGED <<payload, userBehavior, textVars, flowVars>>
    /\ UNCHANGED <<files, fileIdx, results, bpc, allTranscripts, renormalized, metrics>>

NextDecoder == Decode

SpecDecoder == InitDecoder /\ [][NextDecoder]_vars

\* the bracket expression that the PRODUCTS pattern captures, <<>> when the
\* pattern does not match
ProductsGroup(c) ==
    IF FirstProducts(c, 1) = 0 THEN <<>> ELSE ProductsGroupAt(c, FirstProducts(c, 1))

ProductsParse(c) == JsonParse(SingleToDouble(ProductsGroup(c)))

\* the non-empty quoted strings of a text, in the order in which they are written
RECURSIVE QuotedStrings(_)
QuotedStrings(s) ==
    LET open == IndexOf(s, SQ)
        close == IndexOf(Drop(s, open), SQ)
    IN  IF open = 0 \/ close = 0 THEN <<>>
        ELSE (IF close > 1 THEN <<SubSeq(Drop(s, open), 1, close - 1)>> ELSE <<>>)
             \o QuotedStrings(Drop(s, open + close))

IsFlatListOfStrings(value) ==
    value.t = "array" /\ \A i \in 1..Len(value.v) : value.v[i].t = "string"

HasProductsExpression(c) ==
    \E i \in 1..Len(c) :
        /\ c[i] = "PRODUCTS"
        /\ LET r == Drop(c, i)
               q == Drop(r, SpaceRun(r))
           IN  q # <<>> /\ Head(q) = "["

MalformedProducts(c) == HasProductsExpression(c) /\ ~ProductsParse(c).ok

\* a malformed expression never yields a product list
NoGuessedProducts ==
    (decoded # Undefined /\ MalformedProducts(payload)) =>
        ~Truthy(decoded.v.products)

DecoderTolerant ==
    /\ NoGuessedProducts
    /\ (decoded # Undefined /\ MalformedProducts(payload)) =>
           /\ decoded.v.products = Arr(<<>>)
           /\ Truthy(decoded.v.productsRaw)

\* the part that fails even when an absent products field is read as the empty list
RawFragmentKept ==
    (decoded # Undefined /\ MalformedProducts(payload)) => Truthy(decoded.v.productsRaw)

(***************************************************************************)
(* The analysis on its own: extractRuleBasedMetrics and                    *)
(* extractUserBehavior applied to a list of normalized sessions.           *)
(***************************************************************************)
Words(w) ==
    IF Len(w) = 0 THEN <<>>
    ELSE <<w[1]>> \o [i \in 1..(2 * (Len(w) - 1)) |->
                         IF i % 2 = 1 THEN "SP" ELSE w[i \div 2 + 1]]

UserSays(words) == Message(Str(<<"user">>), Str(Words(words)), Undefined)
BotSays(words) == Message(Str(<<"bot">>), Str(Words(words)), Undefined)

RawSession(id, msgs) == [id |-> Str(<<id>>), messages |-> msgs, metadata |-> EmptyMetadata]

\* one query in three casings, the last one padded with spaces
SessionCasings ==
    RawSession("sA",
        <<[UserSays(<<"iPad">>) EXCEPT !.timestamp = Str(<<"T1">>)],
          BotSays(<<"which", "model">>),
          UserSays(<<"ipad">>),
          Message(Str(<<"user">>), Str(<<"SP", "IPAD", "SP">>), Undefined)>>)
\* a numeric query after an alphabetic one, the second message timestamped;
\* results on the bot message
SessionNumeric ==
    RawSession("sB",
        <<UserSays(<<"shoes">>),
          [UserSays(<<"2024">>) EXCEPT !.timestamp = Str(<<"T3">>)],
          [BotSays(<<"ok">>) EXCEPT
              !.results = Obj(parseResultsContent(PayloadDuplicates))]>>)
\* two queries, each asked twice, and one asked once
SessionRepeats ==
    RawSession("sC",
        <<UserSays(<<"Help", "me">>), UserSays(<<"help", "me">>),
          UserSays(<<"shoes", "near", "me">>), UserSays(<<"Shoes", "near", "me">>),
          UserSays(<<"red", "shoes">>)>>)
\* one query of every multi-word tier
SessionTiers ==
    RawSession("sD",
        <<[UserSays(<<"i", "want", "cheap", "shoes">>) EXCEPT
              !.timestamp = Str(<<"T2">>)],
          UserSays(<<"cheap", "shoes", "near", "me">>),
          UserSays(<<"red", "shoes">>),
          UserSays(<<"red", "shoes", "near", "me", "today">>)>>)
\* results on a user message
SessionUserResults ==
    RawSession("sH",
        <<[UserSays(<<"tv">>) EXCEPT !.results = Obj(parseResultsContent(PayloadFlat))],
          [BotSays(<<"ok">>) EXCEPT !.results = Obj(parseResultsContent(PayloadNested))]>>)
\* a product whose identifier names a property of Object.prototype
SessionInheritedProduct ==
    RawSession("sI",
        <<UserSays(<<"shoes">>),
          [BotSays(<<"ok">>) EXCEPT
              !.results = Obj(parseResultsContent(PayloadInherited))]>>)
\* no user message
SessionBotOnly == RawSession("sE", <<BotSays(<<"hi">>)>>)
\* a query that names a property of Object.prototype, and a blank one
SessionProto ==
    RawSession("sF",
        <<UserSays(<<"__proto__">>),
          Message(Str(<<"user">>), Str(<<"SP">>), Undefined),
          UserSays(<<"shoes">>)>>)

\* one user message that names an item, and a clarifying question
SessionSingle ==
    RawSession("sG",
        <<[UserSays(<<"tv", "99">>) EXCEPT !.timestamp = Str(<<"T3">>)],
          BotSays(<<"are", "you", "looking", "for", "a", "tv">>)>>)

SessionPool ==
    {SessionCasings, SessionNumeric, SessionRepeats, SessionTiers, SessionBotOnly,
     SessionProto, SessionSingle, SessionUserResults, SessionInheritedProduct}

\* the normalized sessions of the lists of at most MaxSessions raw sessions
SessionLists ==
    {normalizeTranscripts(<<[filename |-> <<"q", ".json">>, transcripts |-> raw,
                             error |-> Null]>>).value :
        raw \in UNION {[1..n -> SessionPool] : n \in 0..MaxSessions}}

InitAnalysis ==
    /\ allTranscripts \in SessionLists
    /\ bpc = "normalized"
    /\ metrics = getEmptyMetrics
    /\ userBehavior = Undefined
    /\ payload = <<>>
    /\ decoded = Undefined
    /\ files = <<>>
    /\ fileIdx = 1
    /\ results = <<>>
    /\ renormalized = <<>>
    /\ content = <<>>
    /\ filename = FileName
    /\ pc = "idle"
    /\ idx = 1
    /\ messages = <<>>
    /\ currentMessage = Null
    /\ earliestTimestamp = Null
    /\ latestTimestamp = Null
    /\ conversations = <<>>
    /\ currentConversation = NewConversation(Str(FileName))
    /\ result = <<>>
    /\ FlowIdle

\* runAnalysis: extractUserBehavior(transcripts), after the metrics
ExtractUserBehavior ==
    /\ bpc = "metrics"
    /\ userBehavior' = extractUserBehavior(allTranscripts)
    /\ bpc' = "behavior"
    /\ UNCHANGED <<payload, decoded, textVars, flowVars>>
    /\ UNCHANGED <<files, fileIdx, results, allTranscripts, renormalized, metrics>>

NextAnalysis == ExtractMetrics \/ ExtractUserBehavior

SpecAnalysis == InitAnalysis /\ [][NextAnalysis]_vars

(***************************************************************************)
(* C15.  Turn analysis of any session list: singleTurnSessions counts the  *)
(* sessions with exactly one user message, multiTurnSessions those with    *)
(* two or more, a session without user message is in neither (so the two   *)
(* and the zero-turn sessions add up to the number of sessions),           *)
(* maxTurnsInSession is the largest per-session count and                  *)
(* totalUserMessages the sum of the counts.                                *)
(***************************************************************************)
Analysed == bpc \in {"metrics", "behavior"}

\* the number of user messages of session i
UserCount(i) ==
    Cardinality({k \in 1..Len(allTranscripts[i].messages) :
                    allTranscripts[i].messages[k].role = Str(<<"user">>)})

SessionsWith(P(_)) == Cardinality({i \in 1..Len(allTranscripts) : P(UserCount(i))})

RECURSIVE UserCountUpTo(_)
UserCountUpTo(n) == IF n = 0 THEN 0 ELSE UserCount(n) + UserCountUpTo(n - 1)

TurnAnalysisCounts ==
    Analysed =>
        LET ta == extractTurnAnalysis(allTranscripts)
            n == Len(allTranscripts)
        IN  /\ n > 0 => metrics.turnAnalysis = ta
            /\ ta.singleTurnSessions = SessionsWith(LAMBDA c : c = 1)
            /\ ta.multiTurnSessions = SessionsWith(LAMBDA c : c >= 2)
            /\ ta.singleTurnSessions + ta.multiTurnSessions
                   + SessionsWith(LAMBDA c : c = 0) = n
            /\ \A i \in 1..n : UserCount(i) <= ta.maxTurnsInSession
            /\ n > 0 => \E i \in 1..n : UserCount(i) = ta.maxTurnsInSession
            /\ n = 0 => ta.maxTurnsInSession = 0
            /\ ta.totalUserMessages = UserCountUpTo(n)

TurnAnalysisWitness ==
    /\ bpc = "metrics"
    /\ Len(allTranscripts) = 3
    /\ UserCount(1) = 0 /\ UserCount(2) = 1 /\ UserCount(3) >= 2
    /\ metrics.turnAnalysis.singleTurnSessions = 1
    /\ metrics.turnAnalysis.multiTurnSessions = 1

(***************************************************************************)
(* C16.  Query analysis of any session list: every user message with       *)
(* non-empty content is one query occurrence; the unique entries are keyed *)
(* by the trimmed, lower-cased content; the frequency of an entry is the   *)
(* number of occurrences with its key and its display string the literal   *)
(* first seen; the frequencies add up to totalQueries, and                 *)
(* singleWordQueries + multiWordQueries = totalQueries.                    *)
(***************************************************************************)
\* the user messages with non-empty content, in input order
QueryMessages ==
    SelectSeq(AllMessages(allTranscripts),
              LAMBDA m : m.role = Str(<<"user">>) /\ m.content # Str(<<>>))

KeyOf(text) == ToLowerCase(Trim(text))

\* the unique entries of the snapshot: the full list where the snapshot has one
UniqueEntries ==
    IF "allUniqueQueries" \in DOMAIN metrics.queryAnalysis
    THEN metrics.queryAnalysis.allUniqueQueries
    ELSE metrics.queryAnalysis.uniqueQueries

RECURSIVE FrequencySum(_)
FrequencySum(entries) ==
    IF entries = <<>> THEN 0 ELSE Head(entries).frequency + FrequencySum(Tail(entries))

\* the position in QueryMessages of the first occurrence of the key
FirstOccurrence(key) ==
    CHOOSE i \in 1..Len(QueryMessages) :
        /\ KeyOf(QueryMessages[i].content.v) = key
        /\ \A h \in 1..(i - 1) : KeyOf(QueryMessages[h].content.v) # key

\* what holds of the entries that the list does carry
UniqueEntriesFaithful ==
    Analysed =>
        /\ metrics.queryAnalysis.totalQueries = Len(QueryMessages)
        /\ \A j \in 1..Len(UniqueEntries) :
               LET key == KeyOf(UniqueEntries[j].query) IN
               /\ \E i \in 1..Len(QueryMessages) : KeyOf(QueryMessages[i].content.v) = key
               /\ UniqueEntries[j].query
                      = Trim(QueryMessages[FirstOccurrence(key)].content.v)
               /\ UniqueEntries[j].frequency
                      = Cardinality({i \in 1..Len(QueryMessages) :
                                        KeyOf(QueryMessages[i].content.v) = key})
               /\ \A h \in 1..Len(UniqueEntries) :
                      h # j => KeyOf(UniqueEntries[h].query) # key
        /\ metrics.queryAnalysis.queryLengthAnalysis.singleWordQueries
               + metrics.queryAnalysis.queryLengthAnalysis.multiWordQueries
               = metrics.queryAnalysis.totalQueries

QueryAnalysisCounts ==
    /\ UniqueEntriesFaithful
    /\ Analysed =>
           /\ \A i \in 1..Len(QueryMessages) :
                  \E j \in 1..Len(UniqueEntries) :
                      KeyOf(UniqueEntries[j].query) = KeyOf(QueryMessages[i].content.v)
           /\ FrequencySum(UniqueEntries) = metrics.queryAnalysis.totalQueries

(***************************************************************************)
(* C20.  The unique-query list is in non-increasing order of frequency,    *)
(* and entries of equal frequency are in the order in which their first    *)
(* occurrences were seen, numeric queries such as "2024" included.         *)
(***************************************************************************)
FrequencyNonIncreasing ==
    Analysed =>
        \A i, j \in 1..Len(UniqueEntries) :
            i < j => UniqueEntries[i].frequency >= UniqueEntries[j].frequency

UniqueQueriesOrdered ==
    /\ FrequencyNonIncreasing
    /\ Analysed =>
           \A i, j \in 1..Len(UniqueEntries) :
               (i < j /\ UniqueEntries[i].frequency = UniqueEntries[j].frequency) =>
                   FirstOccurrence(KeyOf(UniqueEntries[i].query))
                       < FirstOccurrence(KeyOf(UniqueEntries[j].query))

(***************************************************************************)
(* C17.  Intent classification puts every non-empty user query in exactly  *)
(* one of supportRequest, locationQuery, specificItem, categoryBrowse and   *)
(* productSearch, so the five counters add up to the number of classified  *)
(* queries; priceInquiry is a separate counter outside that sum.           *)
(***************************************************************************)
BehaviorAnalysed == bpc = "behavior"

\* the trimmed non-empty contents of the user messages, in input order
ClassifiedQueries ==
    LET user == SelectSeq(AllMessages(allTranscripts),
                          LAMBDA m : m.role = Str(<<"user">>) /\ Trim(m.content.v) # <<>>)
    IN  [i \in 1..Len(user) |-> Trim(user[i].content.v)]

\* the second chain of the classification assigns exactly one of its three buckets
ItemBrowseSearchExclusive ==
    BehaviorAnalysed =>
        userBehavior.intentCategories.specificItem
            + userBehavior.intentCategories.categoryBrowse
            + userBehavior.intentCategories.productSearch = Len(ClassifiedQueries)

IntentBucketsExclusive ==
    BehaviorAnalysed =>
        userBehavior.intentCategories.supportRequest
            + userBehavior.intentCategories.locationQuery
            + userBehavior.intentCategories.specificItem
            + userBehavior.intentCategories.categoryBrowse
            + userBehavior.intentCategories.productSearch = Len(ClassifiedQueries)

(***************************************************************************)
(* C18.  Complexity classification gives every non-empty user query one    *)
(* tier: singleWord when it has one word, else naturalLanguage when the     *)
(* first-person pattern matches, else advancedSearch when it has five or    *)
(* more words or the location and the price pattern both match, else       *)
(* simplePhrase.  The four counters add up to queryComplexity.total, and    *)
(* the examples of a tier are the first five at most of the queries of the *)
(* tier, in the order met.                                                 *)
(***************************************************************************)
Tiers == {"singleWord", "naturalLanguage", "advancedSearch", "simplePhrase"}

\* the tier the priority rule gives a query
TierByPriority(query) ==
    LET words == Len(WordsOf(query))
        s == ToLowerCase(query)
        single == words = 1
        natural == ~single /\ MatchesNaturalLanguage(s)
        advanced == /\ ~single /\ ~natural
                    /\ (words >= 5 \/ (MatchesLocation(s) /\ MatchesPrice(s)))
    IN  CASE single -> "singleWord"
          [] natural -> "naturalLanguage"
          [] advanced -> "advancedSearch"
          [] OTHER -> "simplePhrase"

QueriesOfTier(t) == SelectSeq(ClassifiedQueries, LAMBDA q : TierByPriority(q) = t)

ComplexityTiers ==
    BehaviorAnalysed =>
        LET qc == userBehavior.queryComplexity IN
        /\ \A t \in Tiers :
               /\ qc[t] = Len(QueriesOfTier(t))
               /\ Len(qc.examples[t]) = IF qc[t] < 5 THEN qc[t] ELSE 5
               /\ \A k \in 1..Len(qc.examples[t]) : qc.examples[t][k] = QueriesOfTier(t)[k]
        /\ qc.total = qc.singleWord + qc.naturalLanguage + qc.advancedSearch
                          + qc.simplePhrase
        /\ qc.total = Len(ClassifiedQueries)

\* more than five single words, a five-word advanced search and a natural one
ComplexityTiersWitness ==
    /\ BehaviorAnalysed
    /\ userBehavior.queryComplexity.singleWord > 5
    /\ Len(userBehavior.queryComplexity.examples.singleWord) = 5
    /\ userBehavior.queryComplexity.naturalLanguage >= 1
    /\ userBehavior.queryComplexity.simplePhrase >= 1
    /\ \E k \in 1..Len(userBehavior.queryComplexity.examples.advancedSearch) :
           Len(WordsOf(userBehavior.queryComplexity.examples.advancedSearch[k])) = 5

(***************************************************************************)
(* C19.  Repeated queries of any session list: a session counts in         *)
(* sessionsWithRepeats exactly when it has more non-empty user queries     *)
(* than distinct lower-cased ones; totalRepeats is the sum of that excess  *)
(* over the sessions, so sessionsWithRepeats <= totalRepeats and           *)
(* sessionsWithRepeats <= the number of sessions; at most five examples    *)
(* are kept over the whole list, each with a count of two or more.         *)
(***************************************************************************)
\* the lower-cased non-empty user queries of session i
LowerQueries(i) ==
    LET user == SelectSeq(allTranscripts[i].messages,
                          LAMBDA m : m.role = Str(<<"user">>) /\ Trim(m.content.v) # <<>>)
    IN  [k \in 1..Len(user) |-> ToLowerCase(Trim(user[k].content.v))]

Excess(i) == Len(LowerQueries(i)) - Cardinality({LowerQueries(i)[k] : k \in 1..Len(LowerQueries(i))})

RECURSIVE ExcessUpTo(_)
ExcessUpTo(n) == IF n = 0 THEN 0 ELSE Excess(n) + ExcessUpTo(n - 1)

RepeatedQueriesCounts ==
    BehaviorAnalysed =>
        LET rq == userBehavior.repeatedQueries
            n == Len(allTranscripts)
        IN  /\ rq.sessionsWithRepeats = Cardinality({i \in 1..n : Excess(i) > 0})
            /\ rq.totalRepeats = ExcessUpTo(n)
            /\ rq.totalRepeats >= rq.sessionsWithRepeats
            /\ rq.sessionsWithRepeats <= n
            /\ Len(rq.examples) <= 5
            /\ \A k \in 1..Len(rq.examples) :
                   /\ rq.examples[k].count >= 2
                   /\ \E i \in 1..n :
                          /\ allTranscripts[i].id = rq.examples[k].sessionId
                          /\ rq.examples[k].count
                                 = Cardinality({j \in 1..Len(LowerQueries(i)) :
                                                   LowerQueries(i)[j] = rq.examples[k].query})

\* six repeated queries in three sessions, of which five are kept
RepeatedQueriesWitness ==
    /\ BehaviorAnalysed
    /\ userBehavior.repeatedQueries.sessionsWithRepeats = 3
    /\ userBehavior.repeatedQueries.totalRepeats = 6
    /\ Len(userBehavior.repeatedQueries.examples) = 5

(***************************************************************************)
(* C21.  Product insights of any session list: totalProductsRecommended is *)
(* the number of string product ids, duplicates counted, in the depth-first *)
(* flattening of results.products over the bot messages, and the sum of    *)
(* the frequencies per product; uniqueProductsRecommended is the number of *)
(* distinct ids; topRecommendedProducts has at most 20 entries, in         *)
(* non-increasing order of frequency; results on a message that is not a   *)
(* bot message add nothing.                                                *)
(***************************************************************************)
\* the number of leaves of a products value that are the string id
RECURSIVE LeafCount(_, _)
LeafCount(value, id) ==
    IF value.t = "array"
    THEN IF value.v = <<>> THEN 0
         ELSE LeafCount(Head(value.v), id) + LeafCount(Arr(Tail(value.v)), id)
    ELSE IF value = Str(id) THEN 1 ELSE 0

\* the non-empty strings that are leaves of a products value
RECURSIVE LeafIds(_)
LeafIds(value) ==
    IF value.t = "array"
    THEN UNION {LeafIds(value.v[i]) : i \in 1..Len(value.v)}
    ELSE IF value.t = "string" /\ value.v # <<>> THEN {value.v} ELSE {}

\* the products values carried by the bot messages
BotProducts ==
    LET carrying == SelectSeq(AllMessages(allTranscripts),
                              LAMBDA m : /\ m.role = Str(<<"bot">>)
                                         /\ Truthy(m.results)
                                         /\ Truthy(m.results.v.products))
    IN  [i \in 1..Len(carrying) |-> carrying[i].results.v.products]

RECURSIVE LeafCountUpTo(_, _)
LeafCountUpTo(n, id) ==
    IF n = 0 THEN 0 ELSE LeafCount(BotProducts[n], id) + LeafCountUpTo(n - 1, id)

BotProductIds == UNION {LeafIds(BotProducts[i]) : i \in 1..Len(BotProducts)}

RECURSIVE SumOfSet(_, _)
SumOfSet(ids, n) ==
    IF ids = {} THEN 0
    ELSE LET id == CHOOSE x \in ids : TRUE
         IN  LeafCountUpTo(n, id) + SumOfSet(ids \ {id}, n)

\* what holds of every snapshot that is returned
ProductCountsFaithful ==
    Analysed =>
        LET pi == metrics.productInsights
            top == pi.topRecommendedProducts
        IN  /\ pi.totalProductsRecommended = SumOfSet(BotProductIds, Len(BotProducts))
            /\ pi.uniqueProductsRecommended = Cardinality(BotProductIds)
            /\ Len(top) <= 20
            /\ \A j \in 1..Len(top) :
                   /\ top[j].productId \in BotProductIds
                   /\ top[j].frequency = LeafCountUpTo(Len(BotProducts), top[j].productId)
                   /\ \A h \in 1..Len(top) : h # j => top[h].productId # top[j].productId
            /\ \A i, j \in 1..Len(top) : i < j => top[i].frequency >= top[j].frequency
            /\ Cardinality(BotProductIds) <= 20 =>
                   /\ Len(top) = Cardinality(BotProductIds)
                   /\ FrequencySum(top) = pi.totalProductsRecommended

\* the claim: every session list has such a snapshot
ProductInsightsCounts ==
    /\ ProductCountsFaithful
    /\ bpc # "normalized" => Analysed

(***************************************************************************)
(* C22.  Time patterns of any session list: a session adds at most one     *)
(* count, from the timestamp of its first message only, to one hour bucket *)
(* and one day bucket; the busiest hour and the busiest day are buckets    *)
(* with the maximum count; among buckets that tie for the maximum, the one *)
(* met first while the sessions are processed in input order is reported.  *)
(***************************************************************************)
\* the positions of the sessions whose first message has a valid timestamp
StampedSessions ==
    {i \in 1..Len(allTranscripts) :
        /\ allTranscripts[i].messages # <<>>
        /\ Truthy(allTranscripts[i].messages[1].timestamp)
        /\ DateOf(allTranscripts[i].messages[1].timestamp).valid}

FirstInstant(i) == DateOf(allTranscripts[i].messages[1].timestamp).ms

HourSessions(hour) == {i \in StampedSessions : HourOf(FirstInstant(i)) = hour}
DaySessions(day) == {i \in StampedSessions : DayOf(FirstInstant(i)) = day}

Least(S) == CHOOSE i \in S : \A j \in S : i <= j

\* every bucket counts the sessions whose first message falls in it
BucketsCountFirstMessages ==
    (Analysed /\ allTranscripts # <<>>) =>
        LET tp == metrics.timePatterns IN
        /\ \A j \in 1..Len(tp.hourlyDistribution) :
               tp.hourlyDistribution[j].count
                   = Cardinality(HourSessions(tp.hourlyDistribution[j].key))
        /\ \A j \in 1..Len(tp.dailyDistribution) :
               tp.dailyDistribution[j].count
                   = Cardinality(DaySessions(tp.dailyDistribution[j].key))
        /\ \A i \in StampedSessions :
               /\ \E j \in 1..Len(tp.hourlyDistribution) :
                      tp.hourlyDistribution[j].key = HourOf(FirstInstant(i))
               /\ \E j \in 1..Len(tp.dailyDistribution) :
                      tp.dailyDistribution[j].key = DayOf(FirstInstant(i))
        /\ (StampedSessions = {}) = (tp.busiestHour = Null)
        /\ (StampedSessions = {}) = (tp.busiestDay = Null)

\* the reported buckets have the maximum count
BusiestIsMaximal ==
    (Analysed /\ StampedSessions # {}) =>
        LET tp == metrics.timePatterns IN
        /\ \E i \in StampedSessions :
               /\ tp.busiestHour = Str(formatHour(HourOf(FirstInstant(i))))
               /\ \A k \in StampedSessions :
                      Cardinality(HourSessions(HourOf(FirstInstant(k))))
                          <= Cardinality(HourSessions(HourOf(FirstInstant(i))))
        /\ \E i \in StampedSessions :
               /\ tp.busiestDay = Str(DayOf(FirstInstant(i)))
               /\ \A k \in StampedSessions :
                      Cardinality(DaySessions(DayOf(FirstInstant(k))))
                          <= Cardinality(DaySessions(DayOf(FirstInstant(i))))

\* no day bucket with the maximum count was met before the reported one
BusiestDayFirstMet ==
    (Analysed /\ StampedSessions # {}) =>
        \A i \in StampedSessions :
            Str(DayOf(FirstInstant(i))) = metrics.timePatterns.busiestDay =>
                \A k \in StampedSessions :
                    Cardinality(DaySessions(DayOf(FirstInstant(k))))
                        = Cardinality(DaySessions(DayOf(FirstInstant(i))))
                    => Least(DaySessions(DayOf(FirstInstant(i))))
                           <= Least(DaySessions(DayOf(FirstInstant(k))))

\* no hour bucket with the maximum count was met before the reported one
BusiestHourFirstMet ==
    (Analysed /\ StampedSessions # {}) =>
        \A i \in StampedSessions :
            Str(formatHour(HourOf(FirstInstant(i)))) = metrics.timePatterns.busiestHour =>
                \A k \in StampedSessions :
                    Cardinality(HourSessions(HourOf(FirstInstant(k))))
                        = Cardinality(HourSessions(HourOf(FirstInstant(i))))
                    => Least(HourSessions(HourOf(FirstInstant(i))))
                           <= Least(HourSessions(HourOf(FirstInstant(k))))

TimePatternsBusiest ==
    /\ BucketsCountFirstMessages
    /\ BusiestIsMaximal
    /\ BusiestDayFirstMet
    /\ BusiestHourFirstMet

(***************************************************************************)
(* C27.  Whenever the insight 'Query Repetition Detected' is emitted       *)
(* (the sessions with repeats exceed 10% of the sessions), the percentage  *)
(* its message states is the computed share of sessions with repeats,      *)
(* equal to repeatedQueries.percentage of the same result; the message     *)
(* never embeds an undefined value.                                        *)
(***************************************************************************)
RepetitionInsights ==
    SelectSeq(userBehavior.insights, LAMBDA x : x.title = "Query Repetition Detected")

\* the insight is emitted exactly when the share exceeds 10%, and once
RepetitionInsightEmitted ==
    (BehaviorAnalysed /\ allTranscripts # <<>>) =>
        Len(RepetitionInsights)
            = IF 10 * userBehavior.repeatedQueries.sessionsWithRepeats > Len(allTranscripts)
              THEN 1 ELSE 0

RepetitionInsightPercentage ==
    /\ RepetitionInsightEmitted
    /\ (BehaviorAnalysed /\ allTranscripts # <<>>) =>
           \A k \in 1..Len(RepetitionInsights) :
               /\ RepetitionInsights[k].embedded # Undefined
               /\ RepetitionInsights[k].embedded
                      = Number(userBehavior.repeatedQueries.percentage)

(***************************************************************************)
(* C23.  Loose-text parser, for every sequence of lines: a session or      *)
(* conversation prefix line closes the current session, which is emitted   *)
(* only when it has a message, and opens one whose id is the rest of the   *)
(* line.  Every emitted session has a message; sessions and messages keep  *)
(* the order of their lines; a message is in the session that was open     *)
(* when its line was read; an unprefixed non-empty line is appended after  *)
(* one space to the last message of the current session, and is dropped    *)
(* when the current session has no message yet.                            *)
(***************************************************************************)
\* "session", "user", "bot" or "text" for a non-blank line of the loose grammar
LooseKind(line) ==
    IF PrefixMatch(line, SessionWords) THEN "session"
    ELSE IF PrefixMatch(line, UserWords) THEN "user"
    ELSE IF PrefixMatch(line, BotWords) THEN "bot"
    ELSE "text"

Kept == SimpleLines(content)

\* the number of lines read
LooseRead == IF pc = "simpleDone" THEN Len(Kept) ELSE idx - 1

\* the line that opened the session in which line j is read; 0 is the session
\* named after the file
OpenerOf(j) == Max({0} \cup {o \in 1..j : LooseKind(Kept[o]) = "session"})

\* the user and bot lines read in the session opened by line o, in order
LooseMessageLines(o) ==
    SelectSeq([j \in 1..LooseRead |-> j],
              LAMBDA j : LooseKind(Kept[j]) \in {"user", "bot"} /\ OpenerOf(j) = o)

\* the openers whose session has a message, in order
EmittedOpeners ==
    SelectSeq([j \in 1..(LooseRead + 1) |-> j - 1],
              LAMBDA o : /\ (o = 0 \/ LooseKind(Kept[o]) = "session")
                         /\ LooseMessageLines(o) # <<>>)

\* the unprefixed lines from line j on up to the next prefixed line, each
\* trimmed and preceded by one space
RECURSIVE LooseFragments(_)
LooseFragments(j) ==
    IF j > LooseRead \/ LooseKind(Kept[j]) # "text" THEN <<>>
    ELSE <<"SP">> \o Trim(Kept[j]) \o LooseFragments(j + 1)

\* the sessions emitted so far, the open one included when it has a message
LooseSeen ==
    IF pc = "simple" THEN PushConversation(conversations, currentConversation)
    ELSE conversations

LooseSessions ==
    pc \in {"simple", "simpleDone"} =>
        /\ Len(LooseSeen) = Len(EmittedOpeners)
        /\ \A k \in 1..Len(LooseSeen) :
               LET o == EmittedOpeners[k]
                   ml == LooseMessageLines(o)
               IN  /\ LooseSeen[k].id
                          = IF o = 0 THEN Str(filename)
                            ELSE Str(Trim(AfterPrefix(Kept[o])))
                   /\ Len(LooseSeen[k].messages) >= 1
                   /\ Len(LooseSeen[k].messages) = Len(ml)
                   /\ \A h \in 1..Len(ml) :
                          /\ LooseSeen[k].messages[h].role = Str(<<LooseKind(Kept[ml[h]])>>)
                          /\ LooseSeen[k].messages[h].content
                                 = Str(Trim(AfterPrefix(Kept[ml[h]]))
                                       \o LooseFragments(ml[h] + 1))
        /\ pc = "simpleDone" =>
               /\ Len(result) >= 1
               /\ \A k \in 1..Len(result) : Len(result[k].messages) >= 1
               /\ LooseSeen # <<>> => result = LooseSeen

\* a line after the session line is dropped, not appended to the closed session
LooseSessionsWitness ==
    /\ pc = "simpleDone"
    /\ content = <<LineLooseUser, LineSession, LineMore2>>
    /\ Len(result) = 1
    /\ result[1].id = Str(FileName)
    /\ Len(result[1].messages) = 1
    /\ result[1].messages[1].content = Str(<<"hello">>)

(***************************************************************************)
(* C29.  Timestamped-log parser: a CONVERSATION STARTED marker and a       *)
(* RESULTS line both close the open message, which is still emitted, and   *)
(* the unprefixed lines that follow are dropped until the next USER or AI  *)
(* line; a marker does not clear the attachment target: a RESULTS line     *)
(* whose nearest previously emitted message is a bot message attaches to   *)
(* it even when a marker lies between them.                                *)
(***************************************************************************)
Closers == {"RESULTS", "CONVERSATION STARTED"}

\* the nearest message line before line r, 0 when there is none
MessageLineBefore(r) ==
    Max({0} \cup {j \in 1..(r - 1) : LineKind(content[j]) \in {"USER", "AI"}})

\* the position among the emitted messages of the message of line m
EmittedIndex(m) == Cardinality({j \in 1..m : LineKind(content[j]) \in {"USER", "AI"}})

\* the unprefixed lines after line m that no closer precedes
RECURSIVE OpenFragments(_, _)
OpenFragments(i, n) ==
    IF i > n THEN <<>>
    ELSE IF LineKind(content[i]) = "skip" THEN OpenFragments(i + 1, n)
    ELSE IF LineKind(content[i]) = "text"
    THEN <<"SP">> \o Trim(content[i]) \o OpenFragments(i + 1, n)
    ELSE <<>>

MarkerKeepsTarget ==
    pc \in TsPcs =>
        LET n == idx - 1 IN
        /\ Len(Emitted) = EmittedIndex(n)
        /\ (pc = "ts" /\ n >= 1 /\ LineKind(content[n]) \in Closers) =>
               currentMessage = Null
        /\ \A m \in 1..n :
               LineKind(content[m]) \in {"USER", "AI"} =>
                   Emitted[EmittedIndex(m)].content
                       = Str(Trim(MatchLinePattern(Trim(content[m])).content)
                             \o OpenFragments(m + 1, n))
        /\ \A r \in 1..n :
               LET m == MessageLineBefore(r) IN
               (/\ LineKind(content[r]) = "RESULTS"
                /\ m > 0
                /\ Emitted[EmittedIndex(m)].role = Bot
                /\ \A j \in (r + 1)..n : LineKind(content[j]) # "RESULTS")
                   => Emitted[EmittedIndex(m)].results = PayloadOf(r)

\* a marker between the bot message and the RESULTS line
MarkerKeepsTargetWitness ==
    /\ pc = "tsDone"
    /\ content = <<LineAi, LineMarker, LineResults>>
    /\ Len(result[1].messages) = 1
    /\ result[1].messages[1].role = Bot
    /\ result[1].messages[1].results = PayloadOf(3)

(***************************************************************************)
(* SpecUpload: the upload flow of FileUpload.  handleDrop and              *)
(* handleFileSelect are memoized with an empty dependency list, so the     *)
(* processFiles they call, and the state and actions it reads, are those   *)
(* of the render in which the component was mounted.  A call of            *)
(* processFiles runs up to its await, and is resumed when                  *)
(* parseUploadedFiles has settled.                                         *)
(***************************************************************************)
\* a file of a type that is not accepted
FileNotes == File(<<"notes", ".md">>, TRUE, <<LineLooseUser>>, NotJson)

UploadPool == {FileB, FileUnreadable, FileJsonNumberRole, FileNotes}

UploadBatches == UNION {[1..n -> UploadPool] : n \in 1..MaxFiles}

\* files.filter(file => file.name.endsWith('.txt') || ...)
validFiles(fs) ==
    SelectSeq(fs, LAMBDA f : \/ EndsWith(f.name, ".txt")
                             \/ EndsWith(f.name, ".json")
                             \/ EndsWith(f.name, ".zip"))

\* validFiles.map(f => ({name, ..., status: 'processing'}))
fileData(valid) ==
    [i \in 1..Len(valid) |->
        [name |-> valid[i].name, status |-> "processing", error |-> Undefined,
         transcriptCount |-> 0]]

\* parseUploadedFiles(files): the entries of all files, in order
RECURSIVE parseUploadedFiles(_)
parseUploadedFiles(fs) ==
    IF fs = <<>> THEN <<>> ELSE EntriesOf(Head(fs)) \o parseUploadedFiles(Tail(fs))

\* [...state.uploadedFiles, ...fileData].map(f => ...): the status of every
\* listed file is taken from the first entry of this call that has its name
updatedFiles(listed, parsed) ==
    [i \in 1..Len(listed) |->
        LET mine == SelectSeq(parsed, LAMBDA e : e.filename = listed[i].name)
        IN  [name |-> listed[i].name,
             status |-> IF mine # <<>> /\ Truthy(mine[1].error) THEN "error"
                        ELSE "success",
             error |-> IF mine # <<>> THEN mine[1].error ELSE Undefined,
             transcriptCount |-> IF mine # <<>> THEN Len(mine[1].transcripts) ELSE 0]]

InitUpload ==
    /\ FlowIdle
    /\ allTranscripts = <<>>
    /\ bpc = "idle"
    /\ metrics = getEmptyMetrics
    /\ userBehavior = Undefined
    /\ payload = <<>>
    /\ decoded = Undefined
    /\ files = <<>>
    /\ fileIdx = 1
    /\ results = <<>>
    /\ renormalized = <<>>
    /\ content = <<>>
    /\ filename = FileName
    /\ pc = "idle"
    /\ idx = 1
    /\ messages = <<>>
    /\ currentMessage = Null
    /\ earliestTimestamp = Null
    /\ latestTimestamp = Null
    /\ conversations = <<>>
    /\ currentConversation = NewConversation(Str(FileName))
    /\ result = <<>>

\* a drop or file-select event: processFiles up to its await
ProcessFilesStart ==
    /\ Len(flights) < MaxBatches
    /\ \E fs \in UploadBatches :
        LET valid == validFiles(fs) IN
        IF valid = <<>>
        THEN /\ flights' = Append(flights, [files |-> fs, captured |-> closure,
                                            at |-> "rejected"])
             /\ appState' = appState
        ELSE /\ flights' = Append(flights, [files |-> fs, captured |-> closure,
                                            at |-> "parsing"])
             /\ appState' = [appState EXCEPT
                    !.uploadedFiles = closure.uploadedFiles \o fileData(valid)]
    /\ UNCHANGED <<closure, runPc, llmConfig, llmReply, progressLog, llmCalls, runResults>>
    /\ UNCHANGED <<objectPrototype, invocations>>
    /\ UNCHANGED <<files, fileIdx, results, bpc, allTranscripts, renormalized, metrics>>
    /\ UNCHANGED <<textVars, analysisVars>>

\* processFiles after its await, for one of the calls in flight
ProcessFilesResume ==
    /\ \E b \in 1..Len(flights) :
        /\ flights[b].at = "parsing"
        /\ LET valid == validFiles(flights[b].files)
               parsed == parseUploadedFiles(valid)
               normalized == normalizeTranscripts(parsed)
               seen == flights[b].captured
           IN  IF normalized.threw
               THEN /\ flights' = [flights EXCEPT ![b].at = "threw"]
                    /\ appState' = appState
               ELSE /\ flights' = [flights EXCEPT ![b].at = "done"]
                    /\ appState' =
                           [uploadedFiles |->
                                updatedFiles(seen.uploadedFiles \o fileData(valid), parsed),
                            parsedTranscripts |->
                                seen.parsedTranscripts \o normalized.value]
    /\ UNCHANGED <<closure, runPc, llmConfig, llmReply, progressLog, llmCalls, runResults>>
    /\ UNCHANGED <<objectPrototype, invocations>>
    /\ UNCHANGED <<files, fileIdx, results, bpc, allTranscripts, renormalized, metrics>>
    /\ UNCHANGED <<textVars, analysisVars>>

\* FileUpload is unmounted while a report is shown and mounted again after
\* resetAnalysis: its handlers then close over the state of that render
Remount ==
    /\ closure # appState
    /\ closure' = appState
    /\ UNCHANGED <<appState, flights, runPc, llmConfig, llmReply, progressLog, llmCalls,
                   runResults, objectPrototype, invocations>>
    /\ UNCHANGED <<files, fileIdx, results, bpc, allTranscripts, renormalized, metrics>>
    /\ UNCHANGED <<textVars, analysisVars>>

NextUpload == ProcessFilesStart \/ ProcessFilesResume \/ Remount

SpecUpload == InitUpload /\ [][NextUpload]_vars

(***************************************************************************)
(* C30.  Upload flow: after any sequence of upload batches, handled one    *)
(* after another or overlapping in time, parsedTranscripts is the          *)
(* concatenation of the normalized sessions of all batches and             *)
(* uploadedFiles lists every uploaded file with its final status; a later  *)
(* batch never discards the files or sessions of an earlier batch.         *)
(***************************************************************************)
Settled == \A b \in 1..Len(flights) : flights[b].at # "parsing"

\* the normalized sessions of batch b, <<>> when normalization throws
SessionsOfBatch(b) ==
    normalizeTranscripts(parseUploadedFiles(validFiles(flights[b].files))).value

RECURSIVE SessionsUpTo(_)
SessionsUpTo(n) == IF n = 0 THEN <<>> ELSE SessionsUpTo(n - 1) \o SessionsOfBatch(n)

RECURSIVE UploadedUpTo(_)
UploadedUpTo(n) ==
    IF n = 0 THEN <<>>
    ELSE UploadedUpTo(n - 1)
         \o [i \in 1..Len(validFiles(flights[n].files)) |->
                validFiles(flights[n].files)[i].name]

\* the sessions of x, each as often as in x, are in y
Within(x, y) ==
    \A i \in 1..Len(x) :
        Cardinality({j \in 1..Len(x) : x[j] = x[i]})
            <= Cardinality({j \in 1..Len(y) : y[j] = x[i]})

\* one batch handled by the handlers of the first render
FirstBatchKept ==
    (Len(flights) = 1 /\ flights[1].at = "done") =>
        /\ appState.parsedTranscripts = SessionsOfBatch(1)
        /\ [i \in 1..Len(appState.uploadedFiles) |-> appState.uploadedFiles[i].name]
               = UploadedUpTo(1)
        /\ \A i \in 1..Len(appState.uploadedFiles) :
               appState.uploadedFiles[i].status \in {"success", "error"}

UploadsAccumulate ==
    /\ FirstBatchKept
    /\ Settled =>
           /\ Within(SessionsUpTo(Len(flights)), appState.parsedTranscripts)
           /\ Within(appState.parsedTranscripts, SessionsUpTo(Len(flights)))
           /\ LET names == [i \in 1..Len(appState.uploadedFiles) |->
                               appState.uploadedFiles[i].name]
              IN  /\ Within(UploadedUpTo(Len(flights)), names)
                  /\ Within(names, UploadedUpTo(Len(flights)))
           /\ \A i \in 1..Len(appState.uploadedFiles) :
                  appState.uploadedFiles[i].status \in {"success", "error"}

(***************************************************************************)
(* SpecRun: runAnalysis, stage by stage.  A stage that throws runs the     *)
(* catch block in the same step: results.success = false, results.error    *)
(* set, and the error thrown again to the caller.                          *)
(***************************************************************************)
\* a run that takes the model branch whatever the configuration
llmEnabledAlways(config) == TRUE

\* if (llmConfig) and llmEnabled: !!llmConfig
llmEnabled(config) == Truthy(config)

\* the configuration the dashboard passes when a model is connected
LlmConfigured == Obj([provider |-> "openai", model |-> "gpt-4o", apiKey |-> "key"])

\* what llmService.parseJsonResponse returns for the reply "json"
ParsedReply ==
    [potentialIssues |-> <<"issue">>, recommendations |-> <<"recommendation">>,
     observations |-> [patterns |-> <<"pattern">>]]

\* the session lists of at most MaxRunSessions sessions
RunInputs ==
    {normalizeTranscripts(<<[filename |-> <<"q", ".json">>, transcripts |-> raw,
                             error |-> Null]>>).value :
        raw \in UNION {[1..n -> SessionPool] : n \in 0..MaxRunSessions}}

\* const results = {...}
NewResults(transcripts, config) ==
    [transcriptCount |-> Len(transcripts), llmEnabled |-> llmEnabled(config),
     success |-> Undefined, error |-> Undefined, analysis |-> Undefined,
     llmAnalysis |-> Undefined]

\* onProgress?.(stage, progress)
Report(log, stage, progress) == Append(log, [stage |-> stage, progress |-> progress])

\* a catch block that records the error only
catchErrorOnly(res, message) == [res EXCEPT !.error = Str(<<message>>)]

\* the catch block
catchError(res, message) ==
    [res EXCEPT !.success = Bool(FALSE), !.error = Str(<<message>>)]

\* ruleBasedMetrics.queryAnalysis.allUniqueQueries.slice(0, 15) on undefined
mergeThrows(ruleBasedMetrics) ==
    "allUniqueQueries" \notin DOMAIN ruleBasedMetrics.queryAnalysis

\* results.analysis = {...}
mergeAnalysis(ruleBasedMetrics, behavior, llmAnalysis) ==
    [potentialIssues |-> IF llmAnalysis = Null THEN <<>> ELSE llmAnalysis.potentialIssues,
     recommendations |-> IF llmAnalysis = Null THEN <<>> ELSE llmAnalysis.recommendations,
     observations |-> IF llmAnalysis = Null THEN <<>> ELSE llmAnalysis.observations,
     sessionOverview |->
         [totalSessions |-> ruleBasedMetrics.sessionOverview.totalSessions,
          dateRange |-> ruleBasedMetrics.sessionOverview.dateRange,
          turnAnalysis |-> ruleBasedMetrics.turnAnalysis,
          timePatterns |-> ruleBasedMetrics.timePatterns],
     queryAnalysis |->
         [totalQueries |-> ruleBasedMetrics.queryAnalysis.totalQueries,
          uniqueQueries |-> ruleBasedMetrics.queryAnalysis.uniqueQueryCount,
          allUniqueQueries |-> ruleBasedMetrics.queryAnalysis.allUniqueQueries,
          queryLengthAnalysis |-> ruleBasedMetrics.queryAnalysis.queryLengthAnalysis,
          topSearchedQueries |->
              Slice(ruleBasedMetrics.queryAnalysis.allUniqueQueries, 15)],
     botResponseAnalysis |->
         [sessionsWithResults |->
              ruleBasedMetrics.botResponseAnalysis.sessionsWithResults,
          sessionsWithoutResults |->
              ruleBasedMetrics.botResponseAnalysis.sessionsWithoutResults,
          avgProductsReturned |->
              ruleBasedMetrics.botResponseAnalysis.avgProductsReturned,
          clarifyingQuestions |->
              ruleBasedMetrics.botResponseAnalysis.clarifyingQuestions],
     userBehavior |-> behavior,
     productInsights |-> ruleBasedMetrics.productInsights,
     dataQualityNotes |-> ruleBasedMetrics.dataQualityNotes]

InitRun ==
    /\ allTranscripts \in RunInputs
    /\ \/ llmConfig = Null /\ llmReply = "none"
       \/ llmConfig = LlmConfigured /\ llmReply \in {"json", "text", "reject"}
    /\ runPc = "start"
    /\ progressLog = <<>>
    /\ llmCalls = <<>>
    /\ runResults = NewResults(allTranscripts, llmConfig)
    /\ objectPrototype = {}
    /\ invocations = <<>>
    /\ appState = InitialState
    /\ closure = InitialState
    /\ flights = <<>>
    /\ bpc = "idle"
    /\ metrics = getEmptyMetrics
    /\ userBehavior = Undefined
    /\ payload = <<>>
    /\ decoded = Undefined
    /\ files = <<>>
    /\ fileIdx = 1
    /\ results = <<>>
    /\ renormalized = <<>>
    /\ content = <<>>
    /\ filename = FileName
    /\ pc = "idle"
    /\ idx = 1
    /\ messages = <<>>
    /\ currentMessage = Null
    /\ earliestTimestamp = Null
    /\ latestTimestamp = Null
    /\ conversations = <<>>
    /\ currentConversation = NewConversation(Str(FileName))
    /\ result = <<>>

RunFrame ==
    /\ UNCHANGED <<appState, closure, flights, llmConfig, llmReply, invocations>>
    /\ UNCHANGED <<files, fileIdx, results, bpc, allTranscripts, renormalized>>
    /\ UNCHANGED <<payload, decoded, textVars>>

\* stage 1: onProgress('parsing', 10); await sleep(300)
RunParsing ==
    /\ runPc = "start"
    /\ progressLog' = Report(progressLog, "parsing", 10)
    /\ runPc' = "metrics"
    /\ UNCHANGED <<metrics, userBehavior, llmCalls, runResults>>
    /\ UNCHANGED objectPrototype
    /\ RunFrame

\* stage 2: onProgress('metrics', 25); extractRuleBasedMetrics(transcripts)
RunMetrics ==
    /\ runPc = "metrics"
    /\ progressLog' = Report(progressLog, "metrics", 25)
    /\ IF extractRuleBasedMetricsThrows(allTranscripts)
       THEN /\ runPc' = "threw"
            /\ runResults' = catchError(runResults, "add is not a function")
            /\ metrics' = metrics
       ELSE /\ runPc' = "behavior"
            /\ runResults' = runResults
            /\ metrics' = extractRuleBasedMetrics(allTranscripts)
    /\ objectPrototype' = objectPrototype \cup prototypeWrites(allTranscripts)
    /\ UNCHANGED <<userBehavior, llmCalls>>
    /\ RunFrame

\* stage 2b: onProgress('behavior', 35); extractUserBehavior(transcripts)
RunBehavior ==
    /\ runPc = "behavior"
    /\ progressLog' = Report(progressLog, "behavior", 35)
    /\ userBehavior' = extractUserBehavior(allTranscripts)
    /\ runPc' = IF llmEnabled(llmConfig) THEN "intents" ELSE "scoring"
    /\ UNCHANGED <<metrics, llmCalls, runResults>>
    /\ UNCHANGED objectPrototype
    /\ RunFrame

\* stage 3 with a model: onProgress('intents', 50); llmService.configure(...)
RunIntents ==
    /\ runPc = "intents"
    /\ progressLog' = Report(progressLog, "intents", 50)
    /\ llmCalls' = Append(llmCalls, "configure")
    /\ runPc' = "scoring"
    /\ UNCHANGED <<metrics, userBehavior, runResults>>
    /\ UNCHANGED objectPrototype
    /\ RunFrame

\* onProgress('scoring', 70); with a model, await llmService.complete(prompt)
RunScoring ==
    /\ runPc = "scoring"
    /\ progressLog' = Report(progressLog, "scoring", 70)
    /\ IF llmEnabled(llmConfig)
       THEN llmCalls' = Append(llmCalls, "complete") /\ runPc' = "awaiting"
       ELSE llmCalls' = llmCalls /\ runPc' = "merge"
    /\ UNCHANGED <<metrics, userBehavior, runResults>>
    /\ UNCHANGED objectPrototype
    /\ RunFrame

\* the request settles: the promise is rejected, or the reply is parsed after
\* onProgress('friction', 85)
RunReply ==
    /\ runPc = "awaiting"
    /\ IF llmReply = "reject"
       THEN /\ runPc' = "threw"
            /\ runResults' = catchError(runResults, "API error")
            /\ progressLog' = progressLog
            /\ llmCalls' = llmCalls
       ELSE /\ progressLog' = Report(progressLog, "friction", 85)
            /\ llmCalls' = Append(llmCalls, "parseJsonResponse")
            /\ IF llmReply = "json"
               THEN runPc' = "merge" /\ runResults' = runResults
               ELSE /\ runPc' = "threw"
                    /\ runResults' =
                           catchError(runResults, "Failed to parse LLM response as JSON")
    /\ UNCHANGED <<metrics, userBehavior>>
    /\ UNCHANGED objectPrototype
    /\ RunFrame

\* onProgress('recommendations', 95); the merge; results.success = true;
\* onProgress('complete', 100); return results
RunMerge ==
    /\ runPc = "merge"
    /\ IF mergeThrows(metrics)
       THEN /\ progressLog' = Report(progressLog, "recommendations", 95)
            /\ runPc' = "threw"
            /\ runResults' = catchError(runResults, "Cannot read properties of undefined")
       ELSE /\ progressLog' = Report(Report(progressLog, "recommendations", 95),
                                     "complete", 100)
            /\ runPc' = "returned"
            /\ runResults' =
                   [runResults EXCEPT
                       !.analysis =
                           mergeAnalysis(metrics, userBehavior,
                                         IF llmEnabled(llmConfig) THEN ParsedReply
                                         ELSE Null),
                       !.llmAnalysis = IF llmEnabled(llmConfig) THEN ParsedReply ELSE Null,
                       !.success = Bool(TRUE)]
    /\ UNCHANGED <<metrics, userBehavior, llmCalls>>
    /\ UNCHANGED objectPrototype
    /\ RunFrame

NextRun ==
    RunParsing \/ RunMetrics \/ RunBehavior \/ RunIntents \/ RunScoring \/ RunReply
    \/ RunMerge

SpecRun == InitRun /\ [][NextRun]_vars

(***************************************************************************)
(* C25: runAnalysis with an empty transcript list and no llmConfig does    *)
(* not throw, reports progress through 'complete' 100 and returns results  *)
(* with success = true and every analysis section present.                 *)
(***************************************************************************)
EmptyRun == allTranscripts = <<>> /\ llmConfig = Null

\* the empty snapshot lacks the list that the merge slices
EmptySnapshotLacksList ==
    (EmptyRun /\ runPc = "merge") => mergeThrows(metrics)

\* C25: an empty run without a model never throws, and once it has ended it
\* has reported 'complete' 100 and returned success = true with an analysis
EmptyRunSucceeds ==
    EmptyRun =>
        /\ runPc # "threw"
        /\ runPc = "returned" =>
               /\ runResults.success = Bool(TRUE)
               /\ runResults.analysis # Undefined
               /\ progressLog[Len(progressLog)] = [stage |-> "complete", progress |-> 100]

(***************************************************************************)
(* C26: without an llmConfig, runAnalysis never calls llmService, the      *)
(* returned analysis has empty potentialIssues, recommendations and        *)
(* observations, and its rule-based sections are those computed from the   *)
(* transcripts.                                                            *)
(***************************************************************************)
\* C26: no llmConfig means no llmService call at any point of the run, and a
\* returned analysis with empty model sections and the rule-based sections of
\* the transcripts
NoModelWithoutConfig ==
    llmConfig = Null =>
        /\ llmCalls = <<>>
        /\ runResults.llmEnabled = FALSE
        /\ runPc = "returned" =>
               /\ runResults.analysis.potentialIssues = <<>>
               /\ runResults.analysis.recommendations = <<>>
               /\ runResults.analysis.observations = <<>>
               /\ runResults.llmAnalysis = Null
               /\ runResults.analysis =
                      mergeAnalysis(extractRuleBasedMetrics(allTranscripts),
                                    extractUserBehavior(allTranscripts), Null)
               /\ runResults.analysis.sessionOverview.totalSessions
                      = Len(allTranscripts)

NoModelWithoutConfigWitness ==
    /\ llmConfig = Null
    /\ runPc = "returned"
    /\ allTranscripts # <<>>
    /\ runResults.analysis.queryAnalysis.totalQueries > 0

(***************************************************************************)
(* C28: progress is reported in the fixed stage order with strictly        *)
(* increasing values; 'complete' 100 only after success = true; a stage    *)
(* that throws leaves 'complete' unreported, success = false, and the      *)
(* error thrown to the caller.                                             *)
(***************************************************************************)
Schedule(config) ==
    IF llmEnabled(config)
    THEN <<[stage |-> "parsing", progress |-> 10], [stage |-> "metrics", progress |-> 25],
           [stage |-> "behavior", progress |-> 35], [stage |-> "intents", progress |-> 50],
           [stage |-> "scoring", progress |-> 70], [stage |-> "friction", progress |-> 85],
           [stage |-> "recommendations", progress |-> 95],
           [stage |-> "complete", progress |-> 100]>>
    ELSE <<[stage |-> "parsing", progress |-> 10], [stage |-> "metrics", progress |-> 25],
           [stage |-> "behavior", progress |-> 35], [stage |-> "scoring", progress |-> 70],
           [stage |-> "recommendations", progress |-> 95],
           [stage |-> "complete", progress |-> 100]>>

Completed == \E i \in 1..Len(progressLog) : progressLog[i].stage = "complete"

\* C28: the reports so far are the first reports of the schedule, their values
\* strictly increasing; 'complete' implies success = true; a thrown run has no
\* 'complete', success = false and an error message
ProgressInOrder ==
    /\ Len(progressLog) <= Len(Schedule(llmConfig))
    /\ progressLog = SubSeq(Schedule(llmConfig), 1, Len(progressLog))
    /\ \A i \in 1..Len(progressLog) - 1 :
           progressLog[i].progress < progressLog[i + 1].progress
    /\ Completed => runResults.success = Bool(TRUE) /\ runPc = "returned"
    /\ runPc = "returned" => Completed
    /\ runPc = "threw" =>
           /\ ~Completed
           /\ runResults.success = Bool(FALSE)
           /\ runResults.error # Undefined

ProgressInOrderWitness ==
    /\ runPc = "threw"
    /\ llmReply = "text"
    /\ Len(progressLog) = 6
    /\ progressLog[6] = [stage |-> "friction", progress |-> 85]

(***************************************************************************)
(* SpecPurity: extractRuleBasedMetrics and extractUserBehavior called any  *)
(* number of times, in any order, on one session list.  Besides the value  *)
(* returned, a call is described by what it assigns outside its own local  *)
(* objects.  Neither function assigns through a reference into its         *)
(* argument: every push, increment and sort is on an array or object       *)
(* literal created in the call.  Every read of a missing key of such an    *)
(* object is a truthiness test (x[k] || 0, !x[k]), and the NaN that        *)
(* Object.prototype.frequency holds is as falsy as undefined, so the value *)
(* returned does not depend on objectPrototype.                            *)
(***************************************************************************)
InitPurity ==
    /\ allTranscripts \in RunInputs
    /\ FlowIdle
    /\ bpc = "normalized"
    /\ metrics = getEmptyMetrics
    /\ userBehavior = Undefined
    /\ payload = <<>>
    /\ decoded = Undefined
    /\ files = <<>>
    /\ fileIdx = 1
    /\ results = <<>>
    /\ renormalized = <<>>
    /\ content = <<>>
    /\ filename = FileName
    /\ pc = "idle"
    /\ idx = 1
    /\ messages = <<>>
    /\ currentMessage = Null
    /\ earliestTimestamp = Null
    /\ latestTimestamp = Null
    /\ conversations = <<>>
    /\ currentConversation = NewConversation(Str(FileName))
    /\ result = <<>>

\* a call of extractRuleBasedMetrics(transcripts)
InvokeMetrics ==
    /\ Len(invocations) < MaxCalls
    /\ LET threw == extractRuleBasedMetricsThrows(allTranscripts)
           value == IF threw THEN [threw |-> TRUE]
                    ELSE extractRuleBasedMetrics(allTranscripts)
       IN  /\ invocations' =
                  Append(invocations,
                         [fn |-> "extractRuleBasedMetrics", input |-> allTranscripts,
                          value |-> value,
                          written |-> prototypeWrites(allTranscripts) \ objectPrototype])
           /\ metrics' = IF threw THEN metrics ELSE value
    /\ objectPrototype' = objectPrototype \cup prototypeWrites(allTranscripts)
    /\ UNCHANGED <<files, fileIdx, results, bpc, allTranscripts, renormalized>>
    /\ UNCHANGED <<textVars, analysisVars, runVars>>

\* a call of extractUserBehavior(transcripts): seen[q] = (seen[q] || 0) + 1 with
\* q "__proto__" assigns a string to __proto__, which is ignored
InvokeBehavior ==
    /\ Len(invocations) < MaxCalls
    /\ invocations' =
           Append(invocations,
                  [fn |-> "extractUserBehavior", input |-> allTranscripts,
                   value |-> extractUserBehavior(allTranscripts), written |-> {}])
    /\ userBehavior' = extractUserBehavior(allTranscripts)
    /\ UNCHANGED <<files, fileIdx, results, bpc, allTranscripts, renormalized, metrics>>
    /\ UNCHANGED <<payload, decoded, textVars, runVars, objectPrototype>>

NextPurity == InvokeMetrics \/ InvokeBehavior

SpecPurity == InitPurity /\ [][NextPurity]_vars

(***************************************************************************)
(* C24: extractRuleBasedMetrics and extractUserBehavior are pure: the      *)
(* session list, its sessions and messages are unchanged by a call, two    *)
(* calls on the same input return equal snapshots, and a report does not   *)
(* depend on which other reports were computed before it.                  *)
(***************************************************************************)
\* every call so far was given the list as it is now, and calls of the same
\* function returned equal values whatever was called in between
SnapshotsRepeat ==
    \A i, j \in 1..Len(invocations) :
        /\ invocations[i].input = allTranscripts
        /\ invocations[i].fn = invocations[j].fn =>
               invocations[i].value = invocations[j].value

\* only extractRuleBasedMetrics on a list with the query "__proto__" writes
\* outside its own objects, and what it writes is Object.prototype.frequency
WritesOnlyFromProtoQuery ==
    /\ objectPrototype \subseteq {"frequency"}
    /\ \A i \in 1..Len(invocations) :
           invocations[i].written # {} =>
               /\ invocations[i].fn = "extractRuleBasedMetrics"
               /\ prototypeWrites(allTranscripts) # {}

\* what reading property name of a session or message of the list gives:
\* the own field, else what the prototype chain holds
readProperty(object, name) ==
    IF name \in DOMAIN object THEN object[name]
    ELSE IF name \in objectPrototype THEN [t |-> "number", n |-> "NaN"]
    ELSE Undefined

\* C24: every call left every property of every session of the list as it was
\* before the first call, wrote nothing outside the value it returned, and
\* returned what every other call of the same function returned
ExtractionIsPure ==
    /\ SnapshotsRepeat
    /\ \A i \in 1..Len(invocations) : invocations[i].written = {}
    /\ \A k \in 1..Len(allTranscripts) :
           readProperty(allTranscripts[k], "frequency") = Undefined

====
